---- MODULE Spec2Model ----
(***************************************************************************)
(* Report generation of py-excel-api: the router ExcelService.generate_    *)
(* report, its two generators, the worksheet utilities of ExcelUtilities   *)
(* and the template validation / listing of TemplateService they call.     *)
(*                                                                         *)
(* Conventions.  Python strings that the code inspects (file names, column *)
(* names, cell text) are sequences of one-character strings, so that       *)
(* lower(), endswith() and == are computed.  Python dicts are sequences of *)
(* <<key, value>> pairs with distinct keys (insertion order).  Numbers are *)
(* integers; the float accumulation of the totals is integer addition.     *)
(* A payload's "rows", when present, is a list of row mappings.             *)
(***************************************************************************)
EXTENDS Integers, Sequences, FiniteSets, TLC

(***************************************************************************)
(* Bounds.                                                                 *)
(***************************************************************************)
MaxRows == 2

(***************************************************************************)
(* Strings.                                                                *)
(***************************************************************************)
LowerChar(ch) ==
    CASE ch = "A" -> "a" [] ch = "B" -> "b" [] ch = "C" -> "c" [] ch = "D" -> "d"
      [] ch = "E" -> "e" [] ch = "F" -> "f" [] ch = "G" -> "g" [] ch = "H" -> "h"
      [] ch = "I" -> "i" [] ch = "J" -> "j" [] ch = "K" -> "k" [] ch = "L" -> "l"
      [] ch = "M" -> "m" [] ch = "N" -> "n" [] ch = "O" -> "o" [] ch = "P" -> "p"
      [] ch = "Q" -> "q" [] ch = "R" -> "r" [] ch = "S" -> "s" [] ch = "T" -> "t"
      [] ch = "U" -> "u" [] ch = "V" -> "v" [] ch = "W" -> "w" [] ch = "X" -> "x"
      [] ch = "Y" -> "y" [] ch = "Z" -> "z" [] OTHER -> ch

Lower(s) == [i \in 1..Len(s) |-> LowerChar(s[i])]

EndsWith(s, suf) ==
    /\ Len(suf) <= Len(s)
    /\ SubSeq(s, Len(s) - Len(suf) + 1, Len(s)) = suf

\* pathlib's PurePath.suffix: the part from the last dot of the name, empty
\* when there is no dot, when the only dot leads the name or when it ends it.
Suffix(name) ==
    LET dots == {i \in 1..Len(name) : name[i] = "."}
    IN  IF dots = {} THEN <<>>
        ELSE LET d == CHOOSE i \in dots : \A j \in dots : j <= i
             IN  IF d = 1 \/ d = Len(name) THEN <<>>
                 ELSE SubSeq(name, d, Len(name))

\* the characters str.strip() removes
WHITESPACE == {" ", "\t", "\n"}

\* str.strip()
Strip(s) ==
    LET solid == {i \in 1..Len(s) : s[i] \notin WHITESPACE}
    IN  IF solid = {} THEN <<>>
        ELSE SubSeq(s, CHOOSE i \in solid : \A j \in solid : i <= j,
                       CHOOSE i \in solid : \A j \in solid : j <= i)

\* sub in s
Contains(s, sub) ==
    \E i \in 1..(Len(s) - Len(sub) + 1) : SubSeq(s, i, i + Len(sub) - 1) = sub

XLSX == <<".", "x", "l", "s", "x">>
XLS == <<".", "x", "l", "s">>
TEMPLATE_1 == <<"t", "e", "m", "p", "l", "a", "t", "e", "-", "1", ".", "x", "l", "s", "x">>
ID_SUFFIX == <<"i", "d">>
TOTAL_LABEL == <<"T", "o", "t", "a", "l">>

(***************************************************************************)
(* Values a JSON payload or a worksheet cell can hold.                     *)
(***************************************************************************)
NoneVal == [t |-> "none", s |-> <<>>, n |-> 0]
Str(x) == [t |-> "str", s |-> x, n |-> 0]
Num(k) == [t |-> "num", s |-> <<>>, n |-> k]
Bool(b) == [t |-> "bool", s |-> <<>>, n |-> IF b THEN 1 ELSE 0]
\* a nested JSON array or object: openpyxl refuses it as a cell value
Obj == [t |-> "obj", s |-> <<>>, n |-> 0]

\* isinstance(value, (int, float)); bool is a subclass of int
IsNumeric(v) == v.t \in {"num", "bool"}

(***************************************************************************)
(* Dicts as sequences of <<key, value>> pairs.                             *)
(***************************************************************************)
Keys(d) == [i \in 1..Len(d) |-> d[i][1]]
HasKey(d, k) == \E i \in 1..Len(d) : d[i][1] = k
Get(d, k) == d[CHOOSE i \in 1..Len(d) : d[i][1] = k][2]

(***************************************************************************)
(* Worksheets: the cells that exist, by <<row, column>>.  worksheet.cell() *)
(* creates a cell that does not exist yet.                                 *)
(***************************************************************************)
DefaultCell == [value |-> NoneVal, fill |-> "none", font |-> "default",
                align |-> "general", border |-> "none"]

EmptySheet == [k \in {} |-> DefaultCell]

CellAt(ws, r, c) == IF <<r, c>> \in DOMAIN ws THEN ws[<<r, c>>] ELSE DefaultCell

ValueAt(ws, r, c) == CellAt(ws, r, c).value

NoWorkbook == [created |-> FALSE, title |-> "", ws |-> EmptySheet,
               widths |-> [k \in {} |-> 0], closed |-> FALSE]

create_workbook(sheet_name) ==
    [created |-> TRUE, title |-> sheet_name, ws |-> EmptySheet,
     widths |-> [k \in {} |-> 0], closed |-> FALSE]

\* headers written one column too far to the right
add_headers_shifted(ws, headers, row, start_col) ==
    LET touched == {<<row, start_col + i>> : i \in 1..Len(headers)}
    IN  [k \in DOMAIN ws \cup touched |->
            IF k \in touched
            THEN [CellAt(ws, k[1], k[2]) EXCEPT !.value = Str(headers[k[2] - start_col])]
            ELSE ws[k]]

add_headers(ws, headers, row, start_col) ==
    LET touched == {<<row, start_col + i - 1>> : i \in 1..Len(headers)}
    IN  [k \in DOMAIN ws \cup touched |->
            IF k \in touched
            THEN [CellAt(ws, k[1], k[2]) EXCEPT !.value = Str(headers[k[2] - start_col + 1])]
            ELSE ws[k]]


\* rows filled by position: the j-th value of a row goes to the j-th column
populate_data_rows_by_position(ws, data_rows, columns, start_row, start_col) ==
    LET N == Len(data_rows)
        K == Len(columns)
        touched == {<<start_row + i - 1, start_col + j - 1>> : i \in 1..N, j \in 1..K}
        RowAt(c) == data_rows[c[1] - start_row + 1]
        Filled(c) == c \in touched /\ c[2] - start_col + 1 <= Len(RowAt(c))
    IN  [ws |-> [c \in DOMAIN ws \cup {d \in touched : Filled(d)} |->
                    IF Filled(c)
                    THEN [CellAt(ws, c[1], c[2]) EXCEPT
                             !.value = RowAt(c)[c[2] - start_col + 1][2]]
                    ELSE CellAt(ws, c[1], c[2])],
         next_row |-> start_row + N,
         raised |-> FALSE,
         err |-> ""]

\* The outcome of populate_data_rows: the worksheet as the loop left it, the
\* row it returns, and whether a cell assignment raised (openpyxl raises
\* ValueError "Cannot convert ... to Excel" for a list or dict value).
populate_data_rows(ws, data_rows, columns, start_row, start_col) ==
    LET N == Len(data_rows)
        K == Len(columns)
        RowOf(k) == ((k - 1) \div K) + 1
        ColOf(k) == ((k - 1) % K) + 1
        Writes(k) == HasKey(data_rows[RowOf(k)], columns[ColOf(k)])
        ValueOf(k) == Get(data_rows[RowOf(k)], columns[ColOf(k)])
        Bad == {k \in 1..(N * K) : Writes(k) /\ ValueOf(k).t = "obj"}
        firstBad == IF Bad = {} THEN N * K + 1
                    ELSE CHOOSE k \in Bad : \A m \in Bad : k <= m
        Reached == {k \in 1..(N * K) : Writes(k) /\ k <= firstBad}
        Coord(k) == <<start_row + RowOf(k) - 1, start_col + ColOf(k) - 1>>
        touched == {Coord(k) : k \in Reached}
        KOf(coord) == CHOOSE k \in Reached : Coord(k) = coord
    IN  [ws |-> [c \in DOMAIN ws \cup touched |->
                    IF c \in touched /\ KOf(c) < firstBad
                    THEN [CellAt(ws, c[1], c[2]) EXCEPT !.value = ValueOf(KOf(c))]
                    ELSE CellAt(ws, c[1], c[2])],
         next_row |-> start_row + N,
         raised |-> Bad # {},
         err |-> IF Bad # {} THEN "Cannot convert value to Excel" ELSE ""]

\* an exclusion that compares the name's case as written
IsSummedCaseSensitive(column_name, value) ==
    IsNumeric(value) /\ ~EndsWith(column_name, ID_SUFFIX)

\* line 74: only int/float values of columns whose lower-cased name does not
\* end in "id" enter the totals
IsSummed(column_name, value) ==
    IsNumeric(value) /\ ~EndsWith(Lower(column_name), ID_SUFFIX)

\* the keys of the totals dict after the loop of lines 72-77
TotalsKeys(data_rows) ==
    UNION {{data_rows[i][p][1] : p \in {q \in 1..Len(data_rows[i]) :
                IsSummed(data_rows[i][q][1], data_rows[i][q][2])}} :
           i \in 1..Len(data_rows)}

\* a total that leaves out the last data row
TotalOfAllButLast(data_rows, column_name) ==
    LET Term(i) == IF HasKey(data_rows[i], column_name)
                      /\ IsSummed(column_name, Get(data_rows[i], column_name))
                   THEN Get(data_rows[i], column_name).n ELSE 0
        partial[i \in 0..Len(data_rows)] == IF i = 0 THEN 0 ELSE partial[i - 1] + Term(i)
    IN  IF data_rows = <<>> THEN 0 ELSE partial[Len(data_rows) - 1]

\* totals[column_name] after the loop of lines 72-77 (0.0, then += value)
RECURSIVE TotalOf(_, _)
TotalOf(data_rows, column_name) ==
    IF data_rows = <<>> THEN 0
    ELSE (IF HasKey(Head(data_rows), column_name)
             /\ IsSummed(column_name, Get(Head(data_rows), column_name))
          THEN Get(Head(data_rows), column_name).n ELSE 0)
         + TotalOf(Tail(data_rows), column_name)

\* lines 69-88 without the early return of lines 66-67
add_calculated_totals_row_unguarded(ws, columns, data_rows, totals_row, start_col) ==
    LET touched == {<<totals_row, start_col + j - 1>> : j \in 1..Len(columns)}
    IN  [k \in DOMAIN ws \cup touched |->
            IF k \notin touched THEN ws[k]
            ELSE IF k[2] = start_col
                 THEN [CellAt(ws, k[1], k[2]) EXCEPT !.value = Str(TOTAL_LABEL),
                                                     !.font = "bold"]
            ELSE CellAt(ws, k[1], k[2])]

add_calculated_totals_row(ws, columns, data_rows, totals_row, start_col) ==
    IF data_rows = <<>> THEN ws
    ELSE
    LET touched == {<<totals_row, start_col + j - 1>> : j \in 1..Len(columns)}
        totals == TotalsKeys(data_rows)
        NameOf(k) == columns[k[2] - start_col + 1]
    IN  [k \in DOMAIN ws \cup touched |->
            IF k \notin touched THEN ws[k]
            ELSE IF k[2] = start_col
                 THEN [CellAt(ws, k[1], k[2]) EXCEPT !.value = Str(TOTAL_LABEL),
                                                     !.font = "bold"]
            ELSE IF NameOf(k) \in totals
                 THEN [CellAt(ws, k[1], k[2]) EXCEPT
                          !.value = Num(TotalOf(data_rows, NameOf(k))),
                          !.font = "bold"]
            ELSE CellAt(ws, k[1], k[2])]

\* the cells of rows r1..r2 and columns c1..c2, each passed through Fmt
Restyle(ws, r1, r2, c1, c2, Fmt(_)) ==
    LET touched == {<<r, c>> : r \in r1..r2, c \in c1..c2}
    IN  [k \in DOMAIN ws \cup touched |->
            IF k \in touched THEN Fmt(CellAt(ws, k[1], k[2])) ELSE ws[k]]

HEADER_BG == "366092"
HEADER_FONT == "FFFFFF"
TOTALS_BG == "E7E6E6"

apply_header_formatting(ws, headers, header_row, start_col) ==
    LET Fmt(cell) == [cell EXCEPT !.fill = HEADER_BG, !.font = "bold " \o HEADER_FONT,
                                  !.align = "center"]
    IN  Restyle(ws, header_row, header_row, start_col, start_col + Len(headers) - 1, Fmt)

apply_data_formatting(ws, columns, data_start_row, data_end_row, start_col) ==
    LET Fmt(cell) == [cell EXCEPT !.align = "left"]
    IN  Restyle(ws, data_start_row, data_end_row - 1,
                start_col, start_col + Len(columns) - 1, Fmt)

apply_totals_formatting(ws, columns, totals_row, start_col) ==
    LET Fmt(cell) == [cell EXCEPT !.fill = TOTALS_BG, !.font = "bold"]
    IN  Restyle(ws, totals_row, totals_row, start_col, start_col + Len(columns) - 1, Fmt)

apply_borders(ws, start_row, end_row, start_col, end_col) ==
    LET Fmt(cell) == [cell EXCEPT !.border = "thin"]
    IN  Restyle(ws, start_row, end_row, start_col, end_col, Fmt)

default_width == 15

auto_size_columns(widths, columns, start_col) ==
    LET touched == start_col..(start_col + Len(columns) - 1)
    IN  [c \in DOMAIN widths \cup touched |->
            IF c \in touched THEN default_width ELSE widths[c]]

(***************************************************************************)
(* Serialization.  The bytes of an .xlsx file are the zip signature        *)
(* followed by one entry per cell that exists; load_workbook rebuilds the  *)
(* cells from the entries.                                                 *)
(***************************************************************************)
ZIP_MAGIC == <<"P", "K">>

NoBytes == [present |-> FALSE, magic |-> <<>>, title |-> "", entries |-> {}]

\* workbook.save(buffer); buffer.getvalue()
SaveBytes(wb) ==
    [present |-> TRUE, magic |-> ZIP_MAGIC, title |-> wb.title,
     entries |-> {<<k[1], k[2], wb.ws[k]>> : k \in DOMAIN wb.ws}]

\* len(bytes)
BytesLen(b) == Len(b.magic) + Cardinality(b.entries)

\* openpyxl.load_workbook(bytes).active, cell by cell
LoadSheet(b) ==
    LET coords == {<<e[1], e[2]>> : e \in b.entries}
    IN  [k \in coords |-> (CHOOSE e \in b.entries : e[1] = k[1] /\ e[2] = k[2])[3]]

\* a save that leaves the workbook open
save_to_buffer_unclosed(wb) ==
    [buffer |-> SaveBytes(wb), workbook |-> wb]

\* save_to_buffer: save, rewind, close the workbook, return the buffer
save_to_buffer(wb) ==
    [buffer |-> SaveBytes(wb), workbook |-> [wb EXCEPT !.closed = TRUE]]

(***************************************************************************)
(* State.  files is the templates directory (file name -> content),        *)
(* caseFold tells whether the file system matches names case-insensitively *)
(* (Windows, macOS) and call holds, per generate_report call, the locals   *)
(* of the call and its position.  listing is a list_templates call of its  *)
(* own and construct the construction of a ReportRequest from a raw name.  *)
(***************************************************************************)
VARIABLES files, caseFold, call, listing, construct

vars == <<files, caseFold, call, listing, construct>>

(***************************************************************************)
(* The templates directory.                                                *)
(***************************************************************************)
ID == <<"I", "D">>
AMT == <<"A", "m", "t">>
QTY == <<"Q", "t", "y">>
PAID == <<"P", "a", "i", "d">>

\* if header_cell.value: None, "", 0 and False count as no value
Truthy(v) ==
    CASE v.t = "none" -> FALSE
      [] v.t = "str" -> v.s # <<>>
      [] v.t \in {"num", "bool"} -> v.n # 0
      [] OTHER -> TRUE

Digit(d) ==
    CASE d = 0 -> "0" [] d = 1 -> "1" [] d = 2 -> "2" [] d = 3 -> "3" [] d = 4 -> "4"
      [] d = 5 -> "5" [] d = 6 -> "6" [] d = 7 -> "7" [] d = 8 -> "8" [] d = 9 -> "9"

RECURSIVE Digits(_)
Digits(n) == IF n < 10 THEN <<Digit(n)>> ELSE Digits(n \div 10) \o <<Digit(n % 10)>>

\* str(header_cell.value)
StrOf(v) ==
    CASE v.t = "str" -> v.s
      [] v.t = "num" -> IF v.n < 0 THEN <<"-">> \o Digits(0 - v.n) ELSE Digits(v.n)
      [] v.t = "bool" -> IF v.n = 1 THEN <<"T", "r", "u", "e">> ELSE <<"F", "a", "l", "s", "e">>
      [] OTHER -> <<"N", "o", "n", "e">>

\* The files of the directory.  A workbook file is the cells of its active
\* sheet that hold a value and the ranges of the sheet's tables, in the
\* library's enumeration order; a file can also be no workbook at all, or a
\* workbook whose active sheet is a chart sheet (it loads, but has no tables).
NoCells == [k \in {} |-> NoneVal]

\* values laid out left to right in one row, starting at first_col
RowCells(row, first_col, values) ==
    [k \in {<<row, first_col + j - 1>> : j \in 1..Len(values)} |->
        values[k[2] - first_col + 1]]

\* openpyxl.utils.range_boundaries(table.ref)
TableRef(min_col, min_row, max_col, max_row) ==
    [min_col |-> min_col, min_row |-> min_row, max_col |-> max_col, max_row |-> max_row]

Workbook(cells, tables) == [kind |-> "ok", cells |-> cells, tables |-> tables]

\* a workbook whose row 1 holds the names cols and that has no table
Template(cols) == Workbook(RowCells(1, 1, [j \in 1..Len(cols) |-> Str(cols[j])]), <<>>)
Corrupt == [kind |-> "corrupt", cells |-> NoCells, tables |-> <<>>]
ChartOnly == [kind |-> "chart", cells |-> NoCells, tables |-> <<>>]

\* worksheet.cell(row, column).value
HeaderValue(file, row, col) ==
    IF <<row, col>> \in DOMAIN file.cells THEN file.cells[<<row, col>>] ELSE NoneVal

T1File == <<"T", "e", "m", "p", "l", "a", "t", "e", "-", "1", ".", "x", "l", "s", "x">>
OtherFile == <<"o", ".", "x", "l", "s", "x">>
MissingFile == <<"m", ".", "x", "l", "s", "x">>

T1Contents == {Template(<<ID, AMT, QTY>>), Template(<<AMT, ID, PAID>>), Corrupt, ChartOnly}
OtherContents == {Template(<<ID, AMT, QTY>>), Corrupt}

Directories ==
    {[n \in {} |-> Corrupt]}
    \cup {[n \in {T1File} |-> a] : a \in T1Contents}
    \cup {[n \in {OtherFile} |-> b] : b \in OtherContents}
    \cup {[n \in {T1File, OtherFile} |-> IF n = T1File THEN a ELSE b] :
            a \in T1Contents, b \in OtherContents}

FsSame(fold, a, b) == IF fold THEN Lower(a) = Lower(b) ELSE a = b

\* Path.exists() of templates_dir / filename
Exists(dir, fold, filename) == \E f \in DOMAIN dir : FsSame(fold, f, filename)

\* the content open() finds at templates_dir / filename
Content(dir, fold, filename) == dir[CHOOSE f \in DOMAIN dir : FsSame(fold, f, filename)]

LOAD_ERROR == "File is not a zip file"
CHART_ERROR == "'Chartsheet' object has no attribute 'tables'"
FS_ERROR == "Permission denied"
SAVE_ERROR == "Out of memory"

Msg(fmt, name, err) == [fmt |-> fmt, name |-> name, err |-> err]

NOT_FOUND == "Template '{filename}' not found"
CANNOT_OPEN == "Cannot open template '{filename}': {e}"
ROUTER_ERROR == "Error generating report: {e}"
T1_NOT_FOUND == "Template {template_name} not found"
T1_ERROR == "Error generating Template-1 report: {e}"
T1_OK == "Template-1 report generated successfully"
NO_DATA == "No data provided for report generation"
GENERIC_ERROR == "Error generating generic report: {e}"
GENERIC_OK == "Generic report generated successfully"

get_template_path(dir, fold, filename) ==
    IF Exists(dir, fold, filename) /\ Lower(Suffix(filename)) \in {XLSX, XLS}
    THEN [found |-> TRUE, path |-> filename]
    ELSE [found |-> FALSE, path |-> <<>>]

\* a validator that only checks that the file exists
validate_template_unopened(dir, fold, filename) ==
    LET template_path == get_template_path(dir, fold, filename)
    IN  IF ~template_path.found
        THEN [valid |-> FALSE, error |-> Msg(NOT_FOUND, filename, "")]
        ELSE [valid |-> TRUE, error |-> Msg("", <<>>, "")]

validate_template(dir, fold, filename) ==
    LET template_path == get_template_path(dir, fold, filename)
    IN  IF ~template_path.found
        THEN [valid |-> FALSE, error |-> Msg(NOT_FOUND, filename, "")]
        ELSE IF Content(dir, fold, template_path.path).kind = "corrupt"
        THEN [valid |-> FALSE, error |-> Msg(CANNOT_OPEN, filename, LOAD_ERROR)]
        ELSE [valid |-> TRUE, error |-> Msg("", <<>>, "")]

\* the sample values _generate_sample_value returns
SampleStr(text) == [t |-> "str", v |-> text]
SampleFloat(text) == [t |-> "float", v |-> text]

ID_KEYWORD == <<"i", "d">>
GROUP_KEYWORDS == {<<"g", "r", "o", "u", "p">>, <<"c", "e", "n", "t", "e", "r">>, <<"c", "a", "t", "e", "g", "o", "r", "y">>, <<"t", "y", "p", "e">>}
MONEY_KEYWORDS == {<<"a", "m", "o", "u", "n", "t">>, <<"r", "a", "t", "e">>, <<"c", "o", "s", "t">>, <<"p", "r", "i", "c", "e">>, <<"t", "o", "t", "a", "l">>}
VARIANCE_KEYWORDS == {<<"d", "i", "f", "f">>, <<"v", "a", "r", "i", "a", "n", "c", "e">>, <<"d", "e", "l", "t", "a">>}

\* a synthesizer that looks for the group keywords before it looks for "id"
generate_sample_value_group_first(column_name) ==
    LET column_lower == Lower(column_name)
        Matches(keywords) == \E keyword \in keywords : Contains(column_lower, keyword)
    IN  IF Matches(GROUP_KEYWORDS) THEN SampleStr("Sample Group")
        ELSE IF Contains(column_lower, ID_KEYWORD) THEN SampleStr("RULE001")
        ELSE IF Matches(MONEY_KEYWORDS) THEN SampleFloat("1000.50")
        ELSE IF Matches(VARIANCE_KEYWORDS) THEN SampleFloat("0.0")
        ELSE SampleStr("Sample Value")

\* a synthesizer that applies the monetary rule before the group rule and
\* the variance rule before the monetary one
generate_sample_value_reordered(column_name) ==
    LET column_lower == Lower(column_name)
        Matches(keywords) == \E keyword \in keywords : Contains(column_lower, keyword)
    IN  IF Contains(column_lower, ID_KEYWORD) THEN SampleStr("RULE001")
        ELSE IF Matches(VARIANCE_KEYWORDS) THEN SampleFloat("0.0")
        ELSE IF Matches(MONEY_KEYWORDS) THEN SampleFloat("1000.50")
        ELSE IF Matches(GROUP_KEYWORDS) THEN SampleStr("Sample Group")
        ELSE SampleStr("Sample Value")

generate_sample_value(column_name) ==
    LET column_lower == Lower(column_name)
        Matches(keywords) == \E keyword \in keywords : Contains(column_lower, keyword)
    IN  IF Contains(column_lower, ID_KEYWORD) THEN SampleStr("RULE001")
        ELSE IF Matches(GROUP_KEYWORDS) THEN SampleStr("Sample Group")
        ELSE IF Matches(MONEY_KEYWORDS) THEN SampleFloat("1000.50")
        ELSE IF Matches(VARIANCE_KEYWORDS) THEN SampleFloat("0.0")
        ELSE SampleStr("Sample Value")

\* str(header_cell.value).strip()
ColumnName(v) == Strip(StrOf(v))

\* range(1, 20): the stop of the fallback scan
FALLBACK_STOP == 20

\* a table scan that ends at the first header cell without a value
table_columns_stopping(file) ==
    LET table == file.tables[1]
        gaps == {c \in table.min_col..table.max_col :
                    ~Truthy(HeaderValue(file, table.min_row, c))}
        stop == IF gaps = {} THEN table.max_col + 1
                ELSE CHOOSE c \in gaps : \A d \in gaps : c <= d
    IN  [j \in 1..(stop - table.min_col) |->
            ColumnName(HeaderValue(file, table.min_row, table.min_col + j - 1))]

\* lines 112-125: the header cells of the first table's top row that hold a
\* value, left to right
table_columns(file) ==
    LET table == file.tables[1]
        upto[c \in (table.min_col - 1)..table.max_col] ==
            IF c = table.min_col - 1 THEN <<>>
            ELSE IF Truthy(HeaderValue(file, table.min_row, c))
                 THEN Append(upto[c - 1], ColumnName(HeaderValue(file, table.min_row, c)))
                 ELSE upto[c - 1]
    IN  upto[table.max_col]

\* a fallback scan that skips the cells without a value and goes on
fallback_columns_skipping(file) ==
    LET upto[c \in 0..(FALLBACK_STOP - 1)] ==
            IF c = 0 THEN <<>>
            ELSE IF Truthy(HeaderValue(file, 1, c))
                 THEN Append(upto[c - 1], ColumnName(HeaderValue(file, 1, c)))
                 ELSE upto[c - 1]
    IN  upto[FALLBACK_STOP - 1]

\* lines 131-138: row 1 from column 1, until the first cell without a value
\* or the end of the range
fallback_columns(file) ==
    LET gaps == {c \in 1..(FALLBACK_STOP - 1) : ~Truthy(HeaderValue(file, 1, c))}
        stop == IF gaps = {} THEN FALLBACK_STOP
                ELSE CHOOSE c \in gaps : \A d \in gaps : c <= d
    IN  [j \in 1..(stop - 1) |-> ColumnName(HeaderValue(file, 1, j))]

\* a dict keyed by the lower-cased column names
SampleDataLowerKeys(columns) ==
    [name \in {Lower(columns[j]) : j \in 1..Len(columns)} |-> generate_sample_value(name)]

\* the dict sample_data: one entry per distinct column name
SampleData(columns) ==
    [name \in {columns[j] : j \in 1..Len(columns)} |-> generate_sample_value(name)]

\* _analyze_excel_structure: any exception is logged and gives no tables,
\* no columns and no sample data
analyze_excel_structure(file) ==
    IF file.kind = "ok"
    THEN LET columns == IF file.tables # <<>> THEN table_columns(file)
                        ELSE fallback_columns(file)
         IN  [tables |-> Len(file.tables), columns |-> columns,
              sample_data |-> SampleData(columns), err |-> ""]
    ELSE [tables |-> 0, columns |-> <<>>, sample_data |-> SampleData(<<>>),
          err |-> IF file.kind = "corrupt" THEN LOAD_ERROR ELSE CHART_ERROR]

\* Path.stem
Stem(name) == SubSeq(name, 1, Len(name) - Len(Suffix(name)))

\* TemplateInfo's validators: the filename ends in ".xlsx" and the display
\* name (stem with "_" and "-" turned into spaces, title-cased) is not blank
TemplateInfoValid(filename) ==
    /\ EndsWith(filename, XLSX)
    /\ \E i \in 1..Len(Stem(filename)) : Stem(filename)[i] \notin {"_", "-", " "}

\* _get_template_info once stat() has answered
get_template_info(dir, f) ==
    LET table_info == analyze_excel_structure(dir[f])
    IN  [filename |-> f, columns |-> table_info.columns,
         sample_data |-> table_info.sample_data, tables |-> table_info.tables]

\* the files glob("*.xlsx") and glob("*.xls") enumerate; fold tells whether
\* the patterns match case-insensitively (Windows paths)
Globbed(dir, fold) ==
    {f \in DOMAIN dir : \/ EndsWith(IF fold THEN Lower(f) ELSE f, XLSX)
                        \/ EndsWith(IF fold THEN Lower(f) ELSE f, XLS)}

STAT_ERROR == "No such file or directory"
INFO_ERROR == "validation error"

\* What one scan of the directory meets: the directory is there ("ok"), is
\* gone ("missing") or may not be read ("unreadable"), for both of which
\* glob yields nothing; the enumeration raises (a parent that may not be
\* searched, no file descriptor left); the patterns fold case; stat() raises
\* for the files in gone.
Scan(state, raises, windows, gone) ==
    [state |-> state, raises |-> raises, windows |-> windows, gone |-> gone]

\* line 40
ExcelFiles(dir, scan) == IF scan.state = "ok" THEN Globbed(dir, scan.windows) ELSE {}

\* a listing that gives up at the first file it cannot process
list_templates_aborting(dir, scan) ==
    LET excel_files == ExcelFiles(dir, scan)
        failed == {f \in excel_files : f \in scan.gone \/ ~TemplateInfoValid(f)}
    IN  IF scan.raises \/ failed # {}
        THEN [success |-> FALSE, templates |-> {},
              log |-> {[site |-> "list_templates", err |-> FS_ERROR]}]
        ELSE [success |-> TRUE,
              templates |-> {get_template_info(dir, f) : f \in excel_files},
              log |-> {[site |-> "_analyze_excel_structure",
                        err |-> analyze_excel_structure(dir[f]).err] :
                          f \in {g \in excel_files : dir[g].kind # "ok"}}]

\* list_templates, under what its scan of the directory meets
list_templates(dir, scan) ==
    LET excel_files == ExcelFiles(dir, scan)
        analyzed == excel_files \ scan.gone
    IN  IF scan.raises
        THEN [success |-> FALSE, templates |-> {},
              log |-> {[site |-> "list_templates", err |-> FS_ERROR]}]
        ELSE [success |-> TRUE,
              templates |-> {get_template_info(dir, f) :
                               f \in {g \in analyzed : TemplateInfoValid(g)}},
              log |-> {[site |-> "_analyze_excel_structure",
                        err |-> analyze_excel_structure(dir[f]).err] :
                          f \in {g \in analyzed : dir[g].kind # "ok"}}
                      \cup {[site |-> "_get_template_info", err |-> INFO_ERROR] :
                          f \in {g \in analyzed : ~TemplateInfoValid(g)}}
                      \cup {[site |-> "_get_template_info", err |-> STAT_ERROR] :
                          f \in excel_files \cap scan.gone}]

(***************************************************************************)
(* Requests and responses.                                                 *)
(***************************************************************************)
ROWS == <<"r", "o", "w", "s">>
COMPANY == <<"c", "o">>

List(items) == [t |-> "list", items |-> items]

Row1 == << <<ID, Str(<<"R", "1">>)>>, <<AMT, Num(100)>>, <<QTY, Num(2)>> >>
Row2 == << <<AMT, Num(50)>>, <<ID, Num(7)>>, <<PAID, Num(5)>> >>
Row3 == << <<QTY, Bool(TRUE)>>, <<AMT, Str(<<"n", "a">>)>> >>
Row4 == << <<ID, Str(<<"R", "4">>)>>, <<QTY, Obj>> >>

RowSet == {Row1, Row2, Row3, Row4}

RowSeqs == UNION {[1..n -> RowSet] : n \in 0..MaxRows}

\* the JSON objects a client sends as data
Payloads ==
    {<<>>, << <<COMPANY, Str(<<"A">>)>> >>}
    \cup {<< <<ROWS, List(rs)>> >> : rs \in RowSeqs}

\* the names a ReportRequest can carry
RequestNames == {T1File, TEMPLATE_1, OtherFile, MissingFile}

\* request.data.get("rows", [])
DataRows(data) == IF HasKey(data, ROWS) THEN Get(data, ROWS).items ELSE <<>>

EmptyData == [filename |-> "", size |-> 0, template_used |-> <<>>, rows_processed |-> 0]

ReportResponse(success, data, message, file_data) ==
    [success |-> success, data |-> data, message |-> message, file_data |-> file_data]

\* a failure that attaches whatever an empty workbook serializes to
FailureWithBytes(message) ==
    ReportResponse(FALSE, EmptyData, message, SaveBytes(NoWorkbook))

Failure(message) == ReportResponse(FALSE, EmptyData, message, NoBytes)

NoResponse == ReportResponse(FALSE, EmptyData, Msg("", <<>>, ""), NoBytes)

NoRequest == [template_name |-> <<>>, data |-> <<>>]

NoInfo == [filename |-> <<>>, columns |-> <<>>, sample_data |-> SampleData(<<>>),
           tables |-> 0]

\* TemplateListResponse
TemplateListResponse(success, templates, log) ==
    [success |-> success, templates |-> templates, log |-> log]

NoListResponse == TemplateListResponse(FALSE, {}, {})

Idle ==
    [pc |-> "idle", via |-> "none", request |-> NoRequest, gen |-> "none",
     templates_response |-> NoListResponse,
     template_info |-> NoInfo, columns |-> <<>>, rows_data |-> <<>>,
     workbook |-> NoWorkbook, next_row |-> 0, excel_buffer |-> NoBytes,
     response |-> NoResponse,
     body |-> <<>>, status |-> 0, media_type |-> "", content |-> NoBytes, log |-> {}]

\* no list_templates call of its own, no request under construction
NoListing == [pc |-> "none"]
NoConstruct == [pc |-> "none"]

InitFor(calls) ==
    /\ files \in Directories
    /\ caseFold \in BOOLEAN
    /\ call = [c \in calls |-> Idle]
    /\ listing = NoListing
    /\ construct = NoConstruct

Init == InitFor({1})

(***************************************************************************)
(* Steps of one call.  Each step is one statement (one utility call) of    *)
(* generate_report or of the generator it routes to; pc orders them as the *)
(* code does.                                                              *)
(***************************************************************************)
\* a service that keeps one workbook for all of its calls
UpdateSharedWorkbook(c, rec) ==
    /\ call' = [d \in DOMAIN call |->
                  IF d = c THEN rec ELSE [call[d] EXCEPT !.workbook = rec.workbook]]
    /\ UNCHANGED <<files, caseFold, listing, construct>>

Update(c, rec) ==
    /\ call' = [call EXCEPT ![c] = rec]
    /\ UNCHANGED <<files, caseFold, listing, construct>>

Logged(log, site, err) == log \cup {[site |-> site, err |-> err]}

GeneratorError(gen) == IF gen = "template_1" THEN T1_ERROR ELSE GENERIC_ERROR

GeneratorSite(gen) ==
    IF gen = "template_1" THEN "_generate_template_1_report" ELSE "_generate_generic_report"

\* an except clause that answers with a fixed text
CaughtSilently(st, err) ==
    [st EXCEPT !.pc = "done",
               !.log = Logged(@, GeneratorSite(st.gen), err),
               !.response = Failure(Msg(GeneratorError(st.gen), <<>>, ""))]

\* the except clause of a generator: log, and answer with the exception text
Caught(st, err) ==
    [st EXCEPT !.pc = "done",
               !.log = Logged(@, GeneratorSite(st.gen), err),
               !.response = Failure(Msg(GeneratorError(st.gen), <<>>, err))]

\* a caller builds a ReportRequest (whose validators passed) and calls
\* excel_service.generate_report
ServiceCall(c) ==
    /\ call[c].pc = "idle"
    /\ \E name \in RequestNames, data \in Payloads \ {<<>>} :
          Update(c, [call[c] EXCEPT !.pc = "validate", !.via = "service",
                        !.request = [template_name |-> name, data |-> data]])

\* POST /api/reports/1: ReportRequest(template_name="Template-1.xlsx", data);
\* validate_data raises on an empty dict, which the route answers with 500
HttpPost(c) ==
    /\ call[c].pc = "idle"
    /\ \E data \in Payloads :
          IF data = <<>>
          THEN Update(c, [call[c] EXCEPT !.pc = "closed", !.via = "http",
                             !.body = data, !.status = 500])
          ELSE Update(c, [call[c] EXCEPT !.pc = "validate", !.via = "http",
                             !.body = data,
                             !.request = [template_name |-> T1File, data |-> data]])

\* a router that compares the template name as written
ValidateRoutingAsWritten(c) ==
    /\ call[c].pc = "validate"
    /\ \E fault \in BOOLEAN :
          LET st == call[c]
              name == st.request.template_name
              validation == validate_template(files, caseFold, name)
          IN  IF fault
              THEN Update(c, [st EXCEPT !.pc = "done",
                                 !.log = Logged(@, "generate_report", FS_ERROR),
                                 !.response = Failure(Msg(ROUTER_ERROR, <<>>, FS_ERROR))])
              ELSE IF ~validation.valid
              THEN Update(c, [st EXCEPT !.pc = "done",
                                 !.response = Failure(validation.error)])
              ELSE IF name = TEMPLATE_1
              THEN Update(c, [st EXCEPT !.pc = "list", !.gen = "template_1"])
              ELSE Update(c, [st EXCEPT !.pc = "create", !.gen = "generic"])

\* generate_report, lines 190-217: validation and routing
Validate(c) ==
    /\ call[c].pc = "validate"
    /\ \E fault \in BOOLEAN :
          LET st == call[c]
              name == st.request.template_name
              validation == validate_template(files, caseFold, name)
          IN  IF fault
              THEN Update(c, [st EXCEPT !.pc = "done",
                                 !.log = Logged(@, "generate_report", FS_ERROR),
                                 !.response = Failure(Msg(ROUTER_ERROR, <<>>, FS_ERROR))])
              ELSE IF ~validation.valid
              THEN Update(c, [st EXCEPT !.pc = "done",
                                 !.response = Failure(validation.error)])
              ELSE IF Lower(name) = TEMPLATE_1
              THEN Update(c, [st EXCEPT !.pc = "list", !.gen = "template_1"])
              ELSE Update(c, [st EXCEPT !.pc = "create", !.gen = "generic"])

\* a lookup that compares the file names without regard to letter case
ResolveFoldingCase(c, gone) ==
    /\ call[c].pc = "list"
    /\ \E fault \in BOOLEAN, windows \in {w \in BOOLEAN : w => caseFold} :
          LET st == call[c]
              name == st.request.template_name
              r == list_templates(files, Scan("ok", fault, windows, gone))
              templates_response == TemplateListResponse(r.success, r.templates, r.log)
              matches == {t \in templates_response.templates :
                            Lower(t.filename) = Lower(name)}
          IN  IF matches = {}
              THEN Update(c, [st EXCEPT !.pc = "done",
                                 !.log = @ \cup templates_response.log,
                                 !.templates_response = templates_response,
                                 !.response = Failure(Msg(T1_NOT_FOUND, name, ""))])
              ELSE Update(c, [st EXCEPT !.pc = "create",
                                 !.log = @ \cup templates_response.log,
                                 !.templates_response = templates_response,
                                 !.template_info = CHOOSE t \in matches : TRUE])

\* _generate_template_1_report, lines 226-239: list the templates afresh and
\* look for the descriptor of the requested file; stat() fails for the files
\* in gone
ResolveWith(c, gone) ==
    /\ call[c].pc = "list"
    /\ \E fault \in BOOLEAN, windows \in {w \in BOOLEAN : w => caseFold} :
          LET st == call[c]
              name == st.request.template_name
              r == list_templates(files, Scan("ok", fault, windows, gone))
              templates_response == TemplateListResponse(r.success, r.templates, r.log)
              matches == {t \in templates_response.templates : t.filename = name}
          IN  IF matches = {}
              THEN Update(c, [st EXCEPT !.pc = "done",
                                 !.log = @ \cup templates_response.log,
                                 !.templates_response = templates_response,
                                 !.response = Failure(Msg(T1_NOT_FOUND, name, ""))])
              ELSE Update(c, [st EXCEPT !.pc = "create",
                                 !.log = @ \cup templates_response.log,
                                 !.templates_response = templates_response,
                                 !.template_info = CHOOSE t \in matches : TRUE])

\* the lookup over a directory that is as validation found it
Resolve(c) == ResolveWith(c, {})

\* the lookup when files have vanished since validation: the listing cannot
\* stat them and describes the others
ResolveVanished(c) ==
    \E gone \in (SUBSET DOMAIN files) \ {{}} : ResolveWith(c, gone)

\* a Template-1 generator that refuses an empty row list as the generic one does
CreateRejectingEmpty(c) ==
    /\ call[c].pc = "create"
    /\ LET st == call[c]
       IN  IF st.gen = "template_1" /\ DataRows(st.request.data) = <<>>
           THEN Update(c, [st EXCEPT !.pc = "done",
                              !.response = Failure(Msg(NO_DATA, <<>>, ""))])
           ELSE IF st.gen = "template_1"
           THEN Update(c, [st EXCEPT !.pc = "headers",
                              !.workbook = create_workbook("Financial Report"),
                              !.columns = st.template_info.columns,
                              !.rows_data = DataRows(st.request.data)])
           ELSE Update(c, [st EXCEPT !.pc = "rows",
                              !.workbook = create_workbook("Report")])

\* lines 242-247 (Template-1) and 301-302 (generic)
Create(c) ==
    /\ call[c].pc = "create"
    /\ LET st == call[c]
       IN  IF st.gen = "template_1"
           THEN Update(c, [st EXCEPT !.pc = "headers",
                              !.workbook = create_workbook("Financial Report"),
                              !.columns = st.template_info.columns,
                              !.rows_data = DataRows(st.request.data)])
           ELSE Update(c, [st EXCEPT !.pc = "rows",
                              !.workbook = create_workbook("Report")])

\* the keys of the last row instead of the first
GenericColumnsOfLastRow(rows_data) ==
    IF rows_data # <<>> THEN Keys(rows_data[Len(rows_data)]) ELSE <<>>

\* line 315: the keys of the first row, in insertion order
GenericColumns(rows_data) == IF rows_data # <<>> THEN Keys(rows_data[1]) ELSE <<>>

\* a generic generator without the check of lines 306-312
GenericRowsUnchecked(c) ==
    /\ call[c].pc = "rows"
    /\ LET st == call[c]
           rows_data == DataRows(st.request.data)
       IN  Update(c, [st EXCEPT !.pc = "headers",
                         !.rows_data = rows_data,
                         !.columns = GenericColumns(rows_data)])

\* _generate_generic_report, lines 305-315
GenericRows(c) ==
    /\ call[c].pc = "rows"
    /\ LET st == call[c]
           rows_data == DataRows(st.request.data)
       IN  IF rows_data = <<>>
           THEN Update(c, [st EXCEPT !.pc = "done",
                              !.response = Failure(Msg(NO_DATA, <<>>, ""))])
           ELSE Update(c, [st EXCEPT !.pc = "headers",
                              !.rows_data = rows_data,
                              !.columns = GenericColumns(rows_data)])

\* lines 250 and 318
Headers(c) ==
    /\ call[c].pc = "headers"
    /\ LET st == call[c]
       IN  Update(c, [st EXCEPT !.pc = "populate",
                         !.workbook.ws = add_headers(@, st.columns, 1, 1)])

\* lines 251 and 319
Populate(c) ==
    /\ call[c].pc = "populate"
    /\ LET st == call[c]
           r == populate_data_rows(st.workbook.ws, st.rows_data, st.columns, 2, 1)
       IN  IF r.raised
           THEN Update(c, Caught([st EXCEPT !.workbook.ws = r.ws], r.err))
           ELSE Update(c, [st EXCEPT !.workbook.ws = r.ws,
                              !.next_row = r.next_row,
                              !.pc = IF st.gen = "template_1" THEN "totals" ELSE "hfmt"])

totals_row(rows_data) == Len(rows_data) + 2

\* lines 255-256
Totals(c) ==
    /\ call[c].pc = "totals"
    /\ LET st == call[c]
       IN  Update(c, [st EXCEPT !.pc = "hfmt",
                         !.workbook.ws = add_calculated_totals_row(@, st.columns,
                                            st.rows_data, totals_row(st.rows_data), 1)])

\* lines 259 and 322
HeaderFormatting(c) ==
    /\ call[c].pc = "hfmt"
    /\ LET st == call[c]
       IN  Update(c, [st EXCEPT !.pc = IF st.gen = "template_1" THEN "dfmt" ELSE "autosize",
                         !.workbook.ws = apply_header_formatting(@, st.columns, 1, 1)])

\* line 260
DataFormatting(c) ==
    /\ call[c].pc = "dfmt"
    /\ LET st == call[c]
       IN  Update(c, [st EXCEPT !.pc = "tfmt",
                         !.workbook.ws = apply_data_formatting(@, st.columns, 2,
                                            totals_row(st.rows_data), 1)])

\* line 261
TotalsFormatting(c) ==
    /\ call[c].pc = "tfmt"
    /\ LET st == call[c]
       IN  Update(c, [st EXCEPT !.pc = "borders",
                         !.workbook.ws = apply_totals_formatting(@, st.columns,
                                            totals_row(st.rows_data), 1)])

\* line 262
Borders(c) ==
    /\ call[c].pc = "borders"
    /\ LET st == call[c]
       IN  Update(c, [st EXCEPT !.pc = "autosize",
                         !.workbook.ws = apply_borders(@, 1, totals_row(st.rows_data),
                                            1, Len(st.columns))])

\* lines 263 and 323
AutoSize(c) ==
    /\ call[c].pc = "autosize"
    /\ LET st == call[c]
       IN  Update(c, [st EXCEPT !.pc = "save",
                         !.workbook.widths = auto_size_columns(@, st.columns, 1)])

\* lines 266 and 325; workbook.save may raise
Save(c) ==
    /\ call[c].pc = "save"
    /\ \E fault \in BOOLEAN :
          LET st == call[c]
              r == save_to_buffer(st.workbook)
          IN  IF fault
              THEN Update(c, Caught(st, SAVE_ERROR))
              ELSE Update(c, [st EXCEPT !.pc = "respond",
                                 !.excel_buffer = r.buffer,
                                 !.workbook = r.workbook])

\* lines 269-283 and 327-341
Respond(c) ==
    /\ call[c].pc = "respond"
    /\ LET st == call[c]
           t1 == st.gen = "template_1"
           data == [filename |-> IF t1 THEN "template_1_report_" ELSE "generic_report_",
                    size |-> BytesLen(st.excel_buffer),
                    template_used |-> st.request.template_name,
                    rows_processed |-> Len(st.rows_data)]
       IN  Update(c, [st EXCEPT !.pc = "done",
                         !.response = ReportResponse(TRUE, data,
                                         Msg(IF t1 THEN T1_OK ELSE GENERIC_OK, <<>>, ""),
                                         st.excel_buffer)])

XLSX_MEDIA_TYPE == "application/vnd.openxmlformats-officedocument.spreadsheetml.sheet"

\* a route that streams whatever the service returned
HttpRespondAlwaysOk(c) ==
    /\ call[c].pc = "done"
    /\ call[c].via = "http"
    /\ Update(c, [call[c] EXCEPT !.pc = "closed", !.status = 200,
                     !.media_type = XLSX_MEDIA_TYPE,
                     !.content = call[c].response.file_data])

\* generate_template_1_report (the route), lines 61-88
HttpRespond(c) ==
    /\ call[c].pc = "done"
    /\ call[c].via = "http"
    /\ LET st == call[c]
           report_response == st.response
       IN  IF ~report_response.success
           THEN Update(c, [st EXCEPT !.pc = "closed", !.status = 400])
           ELSE IF ~report_response.file_data.present
                   \/ BytesLen(report_response.file_data) = 0
           THEN Update(c, [st EXCEPT !.pc = "closed", !.status = 500])
           ELSE Update(c, [st EXCEPT !.pc = "closed", !.status = 200,
                              !.media_type = XLSX_MEDIA_TYPE,
                              !.content = report_response.file_data])

Next ==
    \/ \E c \in DOMAIN call : ServiceCall(c)
    \/ \E c \in DOMAIN call : HttpPost(c)
    \/ \E c \in DOMAIN call : Validate(c)
    \/ \E c \in DOMAIN call : Resolve(c)
    \/ \E c \in DOMAIN call : ResolveVanished(c)
    \/ \E c \in DOMAIN call : Create(c)
    \/ \E c \in DOMAIN call : GenericRows(c)
    \/ \E c \in DOMAIN call : Headers(c)
    \/ \E c \in DOMAIN call : Populate(c)
    \/ \E c \in DOMAIN call : Totals(c)
    \/ \E c \in DOMAIN call : HeaderFormatting(c)
    \/ \E c \in DOMAIN call : DataFormatting(c)
    \/ \E c \in DOMAIN call : TotalsFormatting(c)
    \/ \E c \in DOMAIN call : Borders(c)
    \/ \E c \in DOMAIN call : AutoSize(c)
    \/ \E c \in DOMAIN call : Save(c)
    \/ \E c \in DOMAIN call : Respond(c)
    \/ \E c \in DOMAIN call : HttpRespond(c)

Spec == Init /\ [][Next]_vars

(***************************************************************************)
(* Properties.                                                             *)
(***************************************************************************)
\* generate_report has returned its ReportResponse
Returned(st) == st.pc = "done" \/ (st.pc = "closed" /\ st.request # NoRequest)

\* file bytes are attached (file_data is not None)
HasFile(response) == response.file_data.present

\* the sites whose exceptions reach an except clause of generate_report or of
\* a generator
HandlerSites == {"generate_report", "_generate_template_1_report",
                 "_generate_generic_report"}

\* the statements a call can be at; each has a step, enabled by pc alone
StepLabels == {"validate", "list", "create", "rows", "headers", "populate", "totals",
               "hfmt", "dfmt", "tfmt", "borders", "autosize", "save", "respond"}

\* C1: every ReportResponse that generate_report returns, on whatever path,
\* has file_data present (bytes, and not empty) if and only if success is true.
C1_FileDataIffSuccess ==
    \A c \in DOMAIN call :
        Returned(call[c]) =>
            /\ HasFile(call[c].response) <=> call[c].response.success
            /\ HasFile(call[c].response) => BytesLen(call[c].response.file_data) > 0

C1_Witness ==
    \E c \in DOMAIN call :
        /\ Returned(call[c])
        /\ call[c].response.success
        /\ HasFile(call[c].response)
        /\ call[c].gen = "generic"

\* C2 as stated: whenever validation, the template listing, a generator step
\* or serialization raised during a call, the call returns success=false,
\* a message carrying the exception text, and no file bytes.
C2_EveryExceptionReported ==
    \A c \in DOMAIN call :
        Returned(call[c]) =>
            \A l \in call[c].log :
                /\ ~call[c].response.success
                /\ call[c].response.message.err = l.err
                /\ ~HasFile(call[c].response)

\* C2 amended: no exception escapes (every call that has not returned is at
\* a statement of the code, and a returned call holds a ReportResponse); an
\* exception raised by validation, by a generator step or by serialization
\* gives success=false, a message carrying the exception text and no file
\* bytes.  An exception raised inside the template listing is caught there
\* and its text never reaches the response.
C2_HandledExceptionsReported ==
    \A c \in DOMAIN call :
        /\ call[c].pc \notin {"idle", "done", "closed"} => call[c].pc \in StepLabels
        /\ Returned(call[c]) =>
              /\ call[c].response # NoResponse
              /\ \A l \in call[c].log :
                    IF l.site \in HandlerSites
                    THEN /\ ~call[c].response.success
                         /\ call[c].response.message.err = l.err
                         /\ call[c].response.message.fmt \in
                               {ROUTER_ERROR, T1_ERROR, GENERIC_ERROR}
                         /\ ~HasFile(call[c].response)
                    ELSE call[c].response.message.err # l.err

C2_Witness ==
    \E c \in DOMAIN call :
        /\ Returned(call[c])
        /\ [site |-> "_generate_template_1_report", err |-> SAVE_ERROR] \in call[c].log
        /\ call[c].response.message = Msg(T1_ERROR, <<>>, SAVE_ERROR)

\* C3: when the requested template has no matching file in the templates
\* directory, or the file exists but cannot be opened as a spreadsheet, the
\* call returns success=false with no file bytes and runs neither generator;
\* the message is the one validate_template returned ("... not found" for a
\* missing file) whenever validate_template returned at all.
C3_InvalidTemplateRejected ==
    \A c \in DOMAIN call :
        LET st == call[c]
            name == st.request.template_name
            missing == ~Exists(files, caseFold, name)
            unopenable == Exists(files, caseFold, name)
                          /\ Content(files, caseFold, name).kind = "corrupt"
        IN  (Returned(st) /\ (missing \/ unopenable)) =>
                /\ ~st.response.success
                /\ ~HasFile(st.response)
                /\ st.gen = "none"
                /\ ~st.workbook.created
                /\ st.log = {} =>
                      /\ missing => st.response.message = Msg(NOT_FOUND, name, "")
                      /\ unopenable =>
                            st.response.message = Msg(CANNOT_OPEN, name, LOAD_ERROR)

C3_Witness ==
    \E c \in DOMAIN call :
        /\ Returned(call[c])
        /\ Exists(files, caseFold, call[c].request.template_name)
        /\ Content(files, caseFold, call[c].request.template_name).kind = "corrupt"
        /\ call[c].response.message.fmt = CANNOT_OPEN

(***************************************************************************)
(* Totals.                                                                 *)
(***************************************************************************)
\* the worksheet a client reads when it opens the returned file
FinalSheet(st) == LoadSheet(st.response.file_data)

T1Success(st) == Returned(st) /\ st.gen = "template_1" /\ st.response.success

IsIdColumn(name) == EndsWith(Lower(name), ID_SUFFIX)

\* some row holds an int/float value under this name
IsNumericColumn(rows, name) ==
    \E i \in 1..Len(rows) : HasKey(rows[i], name) /\ IsNumeric(Get(rows[i], name))

RECURSIVE SumSeq(_)
SumSeq(ns) == IF ns = <<>> THEN 0 ELSE ns[Len(ns)] + SumSeq(SubSeq(ns, 1, Len(ns) - 1))

\* the arithmetic sum of the int/float values the rows hold under this name
ColumnSum(rows, name) ==
    SumSeq([i \in 1..Len(rows) |->
              IF HasKey(rows[i], name) /\ IsNumeric(Get(rows[i], name))
              THEN Get(rows[i], name).n ELSE 0])

\* C4 as stated: Template-1 with N rows has its totals row at row N+2, and
\* for every numeric column whose name does not end in "id" the totals cell
\* equals the sum of the column over the N rows.
C4_TotalOfEveryNumericColumn ==
    \A c \in DOMAIN call :
        LET st == call[c]
            rows == DataRows(st.request.data)
            sheet == FinalSheet(st)
        IN  T1Success(st) =>
              \A j \in 1..Len(st.columns) :
                 (IsNumericColumn(rows, st.columns[j]) /\ ~IsIdColumn(st.columns[j])) =>
                    ValueAt(sheet, Len(rows) + 2, j) = Num(ColumnSum(rows, st.columns[j]))

\* C4 amended: Template-1 with N >= 1 rows has its totals row at row N+2 (the
\* last row of the sheet, labelled "Total" in the first column when the
\* template has any column), and for every
\* numeric column other than the first whose name does not end in "id" the
\* totals cell equals the sum of the column's int/float values over the N
\* rows; the totals cell of a column whose name ends in "id" holds no number.
C4_TotalOfNumericColumnsAfterFirst ==
    \A c \in DOMAIN call :
        LET st == call[c]
            rows == DataRows(st.request.data)
            sheet == FinalSheet(st)
            N == Len(rows)
        IN  T1Success(st) =>
              /\ \A k \in DOMAIN sheet : k[1] <= N + 2
              /\ (N >= 1 /\ Len(st.columns) >= 1) =>
                    ValueAt(sheet, N + 2, 1) = Str(TOTAL_LABEL)
              /\ \A j \in 2..Len(st.columns) :
                    /\ (IsNumericColumn(rows, st.columns[j]) /\ ~IsIdColumn(st.columns[j])) =>
                          ValueAt(sheet, N + 2, j) = Num(ColumnSum(rows, st.columns[j]))
                    /\ IsIdColumn(st.columns[j]) => ValueAt(sheet, N + 2, j).t # "num"

C4_Witness ==
    \E c \in DOMAIN call :
        /\ T1Success(call[c])
        /\ DataRows(call[c].request.data) = <<Row1, Row2>>
        /\ call[c].columns = <<ID, AMT, QTY>>
        /\ ValueAt(FinalSheet(call[c]), 4, 2) = Num(150)

\* the call ran against a Template-1 file that opens, and nothing raised
HealthyTemplate1(st) ==
    /\ T1File \in DOMAIN files
    /\ files[T1File].kind # "corrupt"
    /\ \A l \in st.log : l.site = "_analyze_excel_structure"

\* C5 as stated: Template-1 with zero input rows (rows is an empty list, or
\* the payload has no rows key) succeeds with non-empty file bytes and
\* rows_processed = 0, and the HTTP endpoint answers 200 with the spreadsheet
\* content type.
C5_ZeroRowsSucceeds ==
    \A c \in DOMAIN call :
        LET st == call[c]
        IN  /\ (Returned(st) /\ st.request.template_name = T1File
                  /\ DataRows(st.request.data) = <<>> /\ HealthyTemplate1(st)) =>
                  /\ st.response.success
                  /\ HasFile(st.response) /\ BytesLen(st.response.file_data) > 0
                  /\ st.response.data.rows_processed = 0
            /\ (st.pc = "closed" /\ st.via = "http"
                  /\ DataRows(st.body) = <<>> /\ HealthyTemplate1(st)) =>
                  /\ st.status = 200
                  /\ st.media_type = XLSX_MEDIA_TYPE

\* C5 amended: as stated, for a payload that is not the empty object (the
\* empty object has no rows key either, but ReportRequest rejects it and the
\* endpoint answers 500).
C5_ZeroRowsOfNonEmptyPayloadSucceeds ==
    \A c \in DOMAIN call :
        LET st == call[c]
        IN  /\ (Returned(st) /\ st.request.template_name = T1File
                  /\ DataRows(st.request.data) = <<>> /\ HealthyTemplate1(st)) =>
                  /\ st.response.success
                  /\ HasFile(st.response) /\ BytesLen(st.response.file_data) > 0
                  /\ st.response.data.rows_processed = 0
            /\ (st.pc = "closed" /\ st.via = "http" /\ st.body # <<>>
                  /\ DataRows(st.body) = <<>> /\ HealthyTemplate1(st)) =>
                  /\ st.status = 200
                  /\ st.media_type = XLSX_MEDIA_TYPE
            /\ (st.pc = "closed" /\ st.via = "http" /\ st.body = <<>>) => st.status = 500

C5_Witness ==
    \E c \in DOMAIN call :
        /\ call[c].pc = "closed"
        /\ call[c].via = "http"
        /\ call[c].body = << <<ROWS, List(<<>>)>> >>
        /\ call[c].status = 200
        /\ call[c].response.data.rows_processed = 0

C7_IdColumnsBlank ==
    \A c \in DOMAIN call :
        LET st == call[c]
            sheet == FinalSheet(st)
            N == Len(DataRows(st.request.data))
        IN  T1Success(st) =>
              \A j \in 1..Len(st.columns) :
                 IsIdColumn(st.columns[j]) => ValueAt(sheet, N + 2, j) = NoneVal

\* C7 amended: in the calculated totals row the cell of every column whose
\* name ends in "id" (any letter case) is blank whatever the rows hold for
\* it, except in the first position: the first column's cell holds the label
\* "Total" whenever there is at least one data row.
C7_IdColumnsBlankAfterFirst ==
    \A c \in DOMAIN call :
        LET st == call[c]
            sheet == FinalSheet(st)
            N == Len(DataRows(st.request.data))
        IN  T1Success(st) =>
              \A j \in 1..Len(st.columns) :
                 IsIdColumn(st.columns[j]) =>
                    ValueAt(sheet, N + 2, j) =
                       IF j = 1 /\ N >= 1 THEN Str(TOTAL_LABEL) ELSE NoneVal

C7_Witness ==
    \E c \in DOMAIN call :
        /\ T1Success(call[c])
        /\ call[c].columns = <<AMT, ID, PAID>>
        /\ DataRows(call[c].request.data) = <<Row2, Row2>>
        /\ ValueAt(FinalSheet(call[c]), 4, 1) = Str(TOTAL_LABEL)
        /\ ValueAt(FinalSheet(call[c]), 2, 2) = Num(7)
        /\ ValueAt(FinalSheet(call[c]), 4, 2) = NoneVal
        /\ ValueAt(FinalSheet(call[c]), 4, 3) = NoneVal

(***************************************************************************)
(* The generic generator; headers.                                         *)
(***************************************************************************)
GenericSuccess(st) == Returned(st) /\ st.gen = "generic" /\ st.response.success

\* C8: the generic generator, given a non-empty rows sequence, uses exactly
\* the keys of rows[0], in insertion order, as its columns: row 1 of the file
\* reads those keys, there is no column beyond them (a key that only a later
\* row has gets none), and row i+1 holds under each column the i-th row's
\* value for that key, or nothing when the row lacks the key.
C8_GenericColumnsFromFirstRow ==
    \A c \in DOMAIN call :
        LET st == call[c]
            rows == DataRows(st.request.data)
            sheet == FinalSheet(st)
            first == rows[1]
        IN  GenericSuccess(st) =>
              /\ rows # <<>>
              /\ \A k \in DOMAIN sheet : k[2] \in 1..Len(first) /\ k[1] \in 1..(Len(rows) + 1)
              /\ \A j \in 1..Len(first) :
                    /\ ValueAt(sheet, 1, j) = Str(first[j][1])
                    /\ \A i \in 1..Len(rows) :
                          ValueAt(sheet, i + 1, j) =
                             IF HasKey(rows[i], first[j][1])
                             THEN Get(rows[i], first[j][1]) ELSE NoneVal

C8_Witness ==
    \E c \in DOMAIN call :
        /\ GenericSuccess(call[c])
        /\ DataRows(call[c].request.data) = <<Row1, Row2>>
        /\ ValueAt(FinalSheet(call[c]), 1, 3) = Str(QTY)
        /\ ValueAt(FinalSheet(call[c]), 3, 3) = NoneVal
        /\ ValueAt(FinalSheet(call[c]), 3, 1) = Num(7)

\* C9: the generic generator, given an empty rows sequence or a payload with
\* no rows key, returns success=false with the message "No data provided for
\* report generation" and no file bytes; the Template-1 generator given the
\* same rows does not refuse them: it returns success unless its template is
\* not re-resolved or a step raises.
C9_EmptyRowsGenericFailsTemplate1Succeeds ==
    \A c \in DOMAIN call :
        LET st == call[c]
        IN  (Returned(st) /\ DataRows(st.request.data) = <<>>) =>
              /\ st.gen = "generic" => st.response = Failure(Msg(NO_DATA, <<>>, ""))
              /\ st.gen = "template_1" =>
                    \/ /\ st.response.success
                       /\ HasFile(st.response)
                       /\ st.response.message.fmt = T1_OK
                    \/ /\ st.response.message.fmt = T1_NOT_FOUND
                       /\ st.template_info = NoInfo
                    \/ /\ st.response.message.fmt = T1_ERROR
                       /\ \E l \in st.log : l.site = "_generate_template_1_report"

C9_Witness ==
    \E c \in DOMAIN call :
        /\ Returned(call[c])
        /\ call[c].gen = "generic"
        /\ ~HasKey(call[c].request.data, ROWS)
        /\ call[c].response.message.fmt = NO_DATA
        /\ call[c].workbook.created

\* the names a template file holds in row 1, left to right
TemplateHeader(file) ==
    LET width == Cardinality({k \in DOMAIN file.cells : k[1] = 1})
    IN  [j \in 1..width |-> file.cells[<<1, j>>].s]

\* the values of row 1, columns 1..n, left to right
HeaderRow(ws, n) == [j \in 1..n |-> ValueAt(ws, 1, j)]

\* the statements after add_headers
AfterHeaders == {"populate", "totals", "hfmt", "dfmt", "tfmt", "borders", "autosize",
                 "save", "respond"}

\* C10: once the headers are written, row 1 of the worksheet reads, left to
\* right, the column list (the template's columns or the first row's keys),
\* through every later step (data rows, totals, formatting, saving); and in
\* every successfully generated file row 1 reads the column list again when
\* the file is opened.
C10_HeaderRoundTrip ==
    \A c \in DOMAIN call :
        LET st == call[c]
            expected == [j \in 1..Len(st.columns) |-> Str(st.columns[j])]
        IN  /\ (st.pc \in AfterHeaders \/ (Returned(st) /\ st.workbook.ws # EmptySheet)) =>
                  /\ HeaderRow(st.workbook.ws, Len(st.columns)) = expected
                  /\ \A k \in DOMAIN st.workbook.ws : k[1] = 1 => k[2] <= Len(st.columns)
            /\ (Returned(st) /\ st.response.success) =>
                  /\ HeaderRow(FinalSheet(st), Len(st.columns)) = expected
                  /\ st.columns = IF st.gen = "template_1"
                                  THEN TemplateHeader(Content(files, caseFold, st.request.template_name))
                                  ELSE Keys(DataRows(st.request.data)[1])

C10_Witness ==
    \E c \in DOMAIN call :
        /\ T1Success(call[c])
        /\ Len(DataRows(call[c].request.data)) = MaxRows
        /\ HeaderRow(FinalSheet(call[c]), 3) = <<Str(AMT), Str(ID), Str(PAID)>>

(***************************************************************************)
(* Construction of a ReportRequest: the field validators of                *)
(* app/models/reports.py, applied to a raw template name and a payload.    *)
(***************************************************************************)
MaxPad == 1

INVALID_CHARS == {"/", "\\", ":", "*", "?", "\"", "<", ">", "|"}

NAME_EMPTY == "Template name cannot be empty"
NAME_INVALID == "Template name contains invalid characters"
DATA_EMPTY == "Data cannot be empty"

Rejected(error) == [accepted |-> FALSE, value |-> <<>>, error |-> error]
Accepted(v) == [accepted |-> TRUE, value |-> v, error |-> ""]

\* a validator without the check of lines 50-52
validate_template_name_unchecked(raw) ==
    LET v == Strip(raw)
        named == IF EndsWith(v, XLSX) THEN v ELSE v \o XLSX
    IN  IF v = <<>> THEN Rejected(NAME_EMPTY) ELSE Accepted(named)

\* a validator that takes the name as typed, surrounding blanks included
validate_template_name_untrimmed(raw) ==
    LET named == IF EndsWith(raw, XLSX) THEN raw ELSE raw \o XLSX
    IN  IF raw = <<>> THEN Rejected(NAME_EMPTY)
        ELSE IF \E i \in 1..Len(named) : named[i] \in INVALID_CHARS
        THEN Rejected(NAME_INVALID)
        ELSE Accepted(named)

\* a validator that appends ".xlsx" whatever the name ends in
validate_template_name_appending(raw) ==
    LET v == Strip(raw)
        named == v \o XLSX
    IN  IF v = <<>> THEN Rejected(NAME_EMPTY)
        ELSE IF \E i \in 1..Len(named) : named[i] \in INVALID_CHARS
        THEN Rejected(NAME_INVALID)
        ELSE Accepted(named)

validate_template_name(raw) ==
    LET v == Strip(raw)
        named == IF EndsWith(v, XLSX) THEN v ELSE v \o XLSX
    IN  IF v = <<>> THEN Rejected(NAME_EMPTY)
        ELSE IF \E i \in 1..Len(named) : named[i] \in INVALID_CHARS
        THEN Rejected(NAME_INVALID)
        ELSE Accepted(named)

validate_data(v) == IF v = <<>> THEN Rejected(DATA_EMPTY) ELSE Accepted(v)

\* the raw names a client types: blanks, a name, blanks
ANNUAL_REPORT == <<"a", "n", "n", "u", "a", "l", "-", "r", "e", "p", "o", "r", "t">>
BAD_NAME == <<"b", "a", "d", "/", "n", "a", "m", "e">>
UPPER_XLSX == <<".", "X", "L", "S", "X">>

Pads == UNION {[1..n -> WHITESPACE] : n \in 0..MaxPad}

NameStems ==
    {<<>>, ANNUAL_REPORT, BAD_NAME, <<"a", " ", "b">>, <<"x", "l", "s", "x">>,
     <<".">>, <<".", ".">>, <<".", ".", "/", "s">>, <<".", ".", "\\", "s">>,
     <<"/", "e">>, <<"C", ":", "s">>}
    \cup {<<"a", ch>> : ch \in INVALID_CHARS}

NameExtensions == {<<>>, XLSX, UPPER_XLSX, XLS}

\* stem and extension, without surrounding blanks
NameCores == {stem \o ext : stem \in NameStems, ext \in NameExtensions}

NoResult == [accepted |-> FALSE, value |-> <<>>, error |-> "not validated"]

\* The path templates_dir / filename (line 195): pathlib splits the file
\* name at the separators of the platform, drops empty and "." components
\* and keeps ".."; a name that starts with a separator, or on Windows holds
\* a drive, replaces templates_dir altogether.
Separators(windows) == IF windows THEN {"/", "\\"} ELSE {"/"}

RECURSIVE SplitPath(_, _)
SplitPath(s, seps) ==
    LET at == {i \in 1..Len(s) : s[i] \in seps}
    IN  IF at = {} THEN <<s>>
        ELSE LET i == CHOOSE k \in at : \A m \in at : k <= m
             IN  <<SubSeq(s, 1, i - 1)>> \o SplitPath(SubSeq(s, i + 1, Len(s)), seps)

template_path(filename, windows) ==
    [anchored |-> \/ (filename # <<>> /\ filename[1] \in Separators(windows))
                  \/ (windows /\ \E i \in 1..Len(filename) : filename[i] = ":"),
     parts |-> SelectSeq(SplitPath(filename, Separators(windows)),
                         LAMBDA part : part # <<>> /\ part # <<".">>)]

NoPath == [anchored |-> FALSE, parts |-> <<>>]

NotResolved == [found |-> FALSE, path |-> <<>>]

\* the templates directory while requests are built and resolved
ConstructDirectories ==
    {[n \in {} |-> Corrupt],
     [n \in {ANNUAL_REPORT \o XLSX, XLSX, <<"a", " ", "b">> \o UPPER_XLSX \o XLSX} |->
         Template(<<ID, AMT, QTY>>)]}

ConstructInit ==
    /\ files \in ConstructDirectories
    /\ caseFold \in BOOLEAN
    /\ call = [c \in {} |-> Idle]
    /\ listing = NoListing
    /\ \E lead \in Pads, core \in NameCores, trail \in Pads,
          data \in {<<>>, << <<COMPANY, Str(<<"A">>)>> >>, << <<ROWS, List(<<>>)>> >>} :
          construct = [pc |-> "template_name", lead |-> lead, core |-> core,
                       trail |-> trail, template_name |-> lead \o core \o trail,
                       data |-> data, name_result |-> NoResult,
                       data_result |-> NoResult, again |-> NoResult,
                       windows |-> FALSE, template_path |-> NoPath,
                       resolved |-> NotResolved]

\* field 'template_name': validate_template_name replaces the value
ValidateTemplateName ==
    /\ construct.pc = "template_name"
    /\ construct' = [construct EXCEPT !.pc = "data",
                        !.name_result = validate_template_name(construct.template_name)]
    /\ UNCHANGED <<files, caseFold, call, listing>>

\* field 'data': validate_data; the request exists when both fields passed
ValidateData ==
    /\ construct.pc = "data"
    /\ construct' = [construct EXCEPT !.pc = "done",
                        !.data_result = validate_data(construct.data)]
    /\ UNCHANGED <<files, caseFold, call, listing>>

\* a second ReportRequest built from the template_name of the first (a
\* request that is validated again, or copied through its fields)
ValidateTemplateNameAgain ==
    /\ construct.pc = "done"
    /\ construct.name_result.accepted
    /\ construct' = [construct EXCEPT !.pc = "again",
                        !.again = validate_template_name(construct.name_result.value)]
    /\ UNCHANGED <<files, caseFold, call, listing>>

\* validate_template calls get_template_path with the name of the request
\* (lines 195-200, 212), on a POSIX or on a Windows path flavour
GetTemplatePath ==
    /\ construct.pc = "again"
    /\ construct.data_result.accepted
    /\ \E windows \in {w \in BOOLEAN : w => caseFold} :
          construct' = [construct EXCEPT !.pc = "resolved",
                           !.windows = windows,
                           !.template_path =
                               template_path(construct.name_result.value, windows),
                           !.resolved =
                               get_template_path(files, caseFold,
                                                 construct.name_result.value)]
    /\ UNCHANGED <<files, caseFold, call, listing>>

ConstructNext ==
    \/ ValidateTemplateName
    \/ ValidateData
    \/ ValidateTemplateNameAgain
    \/ GetTemplatePath

ConstructSpec == ConstructInit /\ [][ConstructNext]_vars

HasInvalidChar(s) == \E i \in 1..Len(s) : s[i] \in INVALID_CHARS

\* C11: validate_template_name trims the input; an empty name is rejected; a
\* trimmed name that does not end in ".xlsx" gets ".xlsx" appended and one
\* that does is kept ("annual-report" becomes "annual-report.xlsx"); a name
\* holding one of / \ : * ? " < > | is rejected ("bad/name.xlsx" is), and
\* every other non-empty name is accepted, so that no accepted request
\* carries such a character.
C11_TemplateNameNormalized ==
    construct.pc \in {"data", "done"} =>
        LET r == construct.name_result
            core == construct.core
        IN  /\ r.accepted <=> (core # <<>> /\ ~HasInvalidChar(core))
            /\ r.accepted =>
                  /\ r.value = IF EndsWith(core, XLSX) THEN core ELSE core \o XLSX
                  /\ ~HasInvalidChar(r.value)
                  /\ EndsWith(r.value, XLSX)
            /\ core = ANNUAL_REPORT => r = Accepted(ANNUAL_REPORT \o XLSX)
            /\ core = BAD_NAME \o XLSX => r = Rejected(NAME_INVALID)

C11_Witness ==
    /\ construct.pc = "done"
    /\ construct.lead # <<>>
    /\ construct.trail # <<>>
    /\ construct.core = ANNUAL_REPORT
    /\ construct.name_result = Accepted(ANNUAL_REPORT \o XLSX)
    /\ construct.data_result.accepted

(***************************************************************************)
(* A list_templates call of its own (GET /api/templates), over directories *)
(* that hold tables, gaps in the header row, long header rows, old-format  *)
(* and upper-case file names.                                              *)
(***************************************************************************)
MaxHeader == 20

RATE_ID == <<"R", "a", "t", "e", " ", "I", "D">>
GRID_TYPE == <<"G", "r", "i", "d", " ", "T", "y", "p", "e">>
WIDTH_DIFF == <<"W", "i", "d", "t", "h", " ", "D", "i", "f", "f">>
PAID_AMOUNT == <<"P", "A", "I", "D", " ", "A", "M", "O", "U", "N", "T">>
COST_CENTER == <<"C", "o", "s", "t", " ", "C", "e", "n", "t", "e", "r">>
DELTA == <<"D", "e", "l", "t", "a">>
NAME == <<"N", "a", "m", "e">>
COST == <<"C", "o", "s", "t">>
PADDED_COST == <<" ", "C", "o", "s", "t", " ">>

\* a table over A1:E4 whose header row has a cell without a value and a cell
\* holding 0
TableWithGap ==
    Workbook(RowCells(1, 1, <<Str(RATE_ID), NoneVal, Str(COST_CENTER), Num(0), Num(7)>>),
             <<TableRef(1, 1, 5, 4)>>)

\* a table over B2:D5 with every header filled, a second table, and text
\* above the table
TableOffset ==
    Workbook(RowCells(1, 1, <<Str(NAME)>>)
                @@ RowCells(2, 2, <<Str(GRID_TYPE), Str(DELTA), Str(WIDTH_DIFF)>>),
             <<TableRef(2, 2, 4, 5), TableRef(6, 1, 7, 3)>>)

\* no table; a header after a cell without a value
PlainWithGap ==
    Workbook(RowCells(1, 1, <<Str(ID), Str(PADDED_COST), NoneVal, Str(COST_CENTER)>>), <<>>)

\* no table; numbers in the header row, one of them 0
PlainNumbers ==
    Workbook(RowCells(1, 1, <<Num(7), Str(PAID_AMOUNT), Num(0), Str(DELTA)>>), <<>>)

\* no table; names that match more than one rule of the synthesizer
COST_CENTER_GROUP == COST_CENTER \o <<" ", "G", "r", "o", "u", "p">>
RATE_DIFF == <<"A", "B", "/", "C", "R", " ", "R", "a", "t", "e", " ", "D", "i", "f", "f">>

PlainKeywords ==
    Workbook(RowCells(1, 1, <<Str(COST_CENTER_GROUP), Str(RATE_DIFF), Str(NAME),
                              Str(DELTA), Str(PADDED_COST)>>), <<>>)

\* no table; the same name in three header cells
PlainDuplicates ==
    Workbook(RowCells(1, 1, <<Str(COST), Str(PADDED_COST), Str(ID), Str(COST)>>), <<>>)

\* no table; MaxHeader headers in a row
Wide ==
    Workbook(RowCells(1, 1, [j \in 1..MaxHeader |-> Str(<<"c">> \o Digits(j))]), <<>>)

XlsFile == <<"l", ".", "x", "l", "s">>
UpperFile == <<"U", ".", "X", "L", "S", "X">>

\* the directories: each file is there or not, with one of its contents
ListContents(n) ==
    CASE n = OtherFile ->
            {TableWithGap, TableOffset, PlainWithGap, PlainNumbers, PlainKeywords, Wide,
             Corrupt, ChartOnly}
      [] n = T1File -> {Template(<<ID, AMT, QTY>>), TableWithGap, PlainDuplicates, Corrupt}
      [] n = XlsFile -> {Template(<<ID, AMT, QTY>>), Corrupt}
      [] n = UpperFile -> {Template(<<ID, AMT, QTY>>), Corrupt}

ListDirectories ==
    UNION {{d \in [names -> UNION {ListContents(n) : n \in names}] :
               \A n \in names : d[n] \in ListContents(n)} :
             names \in SUBSET {OtherFile, T1File, XlsFile, UpperFile}}

NoScan == Scan("none", FALSE, FALSE, {})

ListInit ==
    /\ files \in ListDirectories
    /\ caseFold \in BOOLEAN
    /\ call = [c \in {} |-> Idle]
    /\ construct = NoConstruct
    /\ \E state \in {"ok", "missing", "unreadable"} :
          /\ state = "missing" => files = [n \in {} |-> Corrupt]
          /\ listing = [pc |-> "idle", state |-> state, scan |-> NoScan,
                        response |-> NoListResponse]

\* one call of list_templates, whatever its scan of the directory meets
ListTemplates ==
    /\ listing.pc = "idle"
    /\ \E raises \in BOOLEAN, windows \in {w \in BOOLEAN : w => caseFold},
          gone \in SUBSET DOMAIN files :
          LET scan == Scan(listing.state, raises, windows, gone)
              r == list_templates(files, scan)
          IN  listing' = [listing EXCEPT !.pc = "done", !.scan = scan,
                             !.response = TemplateListResponse(r.success, r.templates, r.log)]
    /\ UNCHANGED <<files, caseFold, call, construct>>

ListNext == ListTemplates

ListSpec == ListInit /\ [][ListNext]_vars

\* the listing has returned
Listed == listing.pc = "done"

\* the descriptors of the returned listing
Descriptors == listing.response.templates

HasDescriptor(f) == \E t \in Descriptors : t.filename = f

\* the name holds an "i" directly followed by a "d", in either letter case
HoldsId(name) ==
    \E i \in 1..(Len(name) - 1) : name[i] \in {"i", "I"} /\ name[i + 1] \in {"d", "D"}

\* C12: for every column name that holds "id" in any letter case, the sample
\* value a listing gives for the column is the string "RULE001", also when
\* the name matches the group rule ("Grid Type"), the monetary rule
\* ("Rate ID", "PAID AMOUNT") or the variance rule ("Width Diff").
C12_IdColumnsSampleRule001 ==
    Listed =>
        \A t \in Descriptors :
            \A name \in DOMAIN t.sample_data :
                HoldsId(name) => t.sample_data[name] = SampleStr("RULE001")

C12_Witness ==
    /\ Listed
    /\ \E t \in Descriptors :
          /\ t.columns = <<GRID_TYPE, DELTA, WIDTH_DIFF>>
          /\ t.sample_data[GRID_TYPE] = SampleStr("RULE001")
          /\ t.sample_data[WIDTH_DIFF] = SampleStr("RULE001")
          /\ t.sample_data[DELTA] = SampleFloat("0.0")
    /\ \E t \in Descriptors :
          /\ t.columns = <<RATE_ID, COST_CENTER, <<"7">> >>
          /\ t.sample_data[RATE_ID] = SampleStr("RULE001")
          /\ t.sample_data[COST_CENTER] = SampleStr("Sample Group")

(***************************************************************************)
(* Column inference.                                                       *)
(***************************************************************************)
\* the file behind a descriptor
FileOf(t) == files[t.filename]

\* the file is a workbook whose active sheet has a table / has none
Tabled(file) == file.kind = "ok" /\ file.tables # <<>>
Plain(file) == file.kind = "ok" /\ file.tables = <<>>

\* the columns of the first table's range whose header cell holds a value
\* (one that is not None, "", 0 or False)
FilledHeaders(file) ==
    {c \in file.tables[1].min_col..file.tables[1].max_col :
        Truthy(HeaderValue(file, file.tables[1].min_row, c))}

TableWidth(file) == file.tables[1].max_col - file.tables[1].min_col + 1

\* C13 as stated: for every file whose active sheet has a table, the length
\* of the inferred column list equals the width of the table range.
C13_ColumnCountIsTableWidth ==
    Listed =>
        \A t \in Descriptors :
            Tabled(FileOf(t)) => Len(t.columns) = TableWidth(FileOf(t))

\* C13 amended: for every file whose active sheet has a table, the inferred
\* column list is the stripped text of the header cells of the first table's
\* top row that hold a value, left to right over the whole width of the
\* range; its length is the number of those cells, which equals the width of
\* the range only when no header cell of the range is without a value.
C13_ColumnsAreFilledTableHeaders ==
    Listed =>
        \A t \in Descriptors :
            Tabled(FileOf(t)) =>
                LET file == FileOf(t)
                    filled == FilledHeaders(file)
                    Position(c) == Cardinality({d \in filled : d <= c})
                IN  /\ Len(t.columns) = Cardinality(filled)
                    /\ \A c \in filled :
                          t.columns[Position(c)] =
                             Strip(StrOf(HeaderValue(file, file.tables[1].min_row, c)))
                    /\ Len(t.columns) = TableWidth(file) <=>
                          Cardinality(filled) = TableWidth(file)
                    /\ t.tables = Len(file.tables)

C13_Witness ==
    /\ Listed
    /\ \E t \in Descriptors :
          /\ FileOf(t) = TableWithGap
          /\ t.columns = <<RATE_ID, COST_CENTER, <<"7">> >>
    /\ \E t \in Descriptors :
          /\ FileOf(t) = TableOffset
          /\ t.columns = <<GRID_TYPE, DELTA, WIDTH_DIFF>>

\* the first column of row 1, from column 1, whose cell is empty (None)
FirstEmpty(file) ==
    CHOOSE c \in 1..(MaxHeader + 2) :
        /\ HeaderValue(file, 1, c) = NoneVal
        /\ \A d \in 1..(c - 1) : HeaderValue(file, 1, d) # NoneVal

\* the first column of row 1, among columns 1 to 19, whose cell holds no
\* value (None, "", 0 or False); 20 when each of the 19 holds one
FirstGap(file) ==
    IF \A c \in 1..19 : Truthy(HeaderValue(file, 1, c)) THEN 20
    ELSE CHOOSE c \in 1..19 :
            /\ ~Truthy(HeaderValue(file, 1, c))
            /\ \A d \in 1..(c - 1) : Truthy(HeaderValue(file, 1, d))

Enumerated == listing.scan.state = "ok" /\ ~listing.scan.raises

\* the file name ends in ".xlsx" as written and has a stem that is not made
\* of separators only (the two conditions TemplateInfo puts on a descriptor)
Describable(f) ==
    /\ Len(f) >= 5
    /\ SubSeq(f, Len(f) - 4, Len(f)) = XLSX
    /\ \E i \in 1..(Len(f) - 5) : f[i] \notin {"_", "-", " "}

\* processing the file raises: stat() does, or the descriptor is refused
Raises(f) == f \in listing.scan.gone \/ ~Describable(f)

\* C15: whatever the directory holds, when the processing of a file raises
\* (its stat() fails, or its descriptor is refused) the listing still
\* returns success=true and holds a descriptor for every other enumerated
\* file that can be processed, and none for the file that raised.
C15_BadFileDoesNotAbortListing ==
    (Listed /\ Enumerated) =>
        /\ listing.response.success
        /\ \A f \in ExcelFiles(files, listing.scan) :
              IF Raises(f) THEN ~HasDescriptor(f)
              ELSE \E t \in Descriptors :
                      /\ t.filename = f
                      /\ t.columns = analyze_excel_structure(files[f]).columns
        /\ \A t \in Descriptors : t.filename \in ExcelFiles(files, listing.scan)

C15_Witness ==
    /\ Listed
    /\ listing.response.success
    /\ T1File \in listing.scan.gone
    /\ XlsFile \in ExcelFiles(files, listing.scan)
    /\ [site |-> "_get_template_info", err |-> STAT_ERROR] \in listing.response.log
    /\ [site |-> "_get_template_info", err |-> INFO_ERROR] \in listing.response.log
    /\ HasDescriptor(OtherFile)
    /\ ~HasDescriptor(T1File)

\* C16: a file of the directory that cannot be parsed as a spreadsheet is
\* skipped by the listing: the listing returns no descriptor for it.
C16_CorruptFileSkipped ==
    Listed =>
        \A f \in DOMAIN files : files[f].kind = "corrupt" => ~HasDescriptor(f)

\* a listing that describes a file that is no spreadsheet
C16_Witness ==
    /\ Listed
    /\ OtherFile \in DOMAIN files
    /\ files[OtherFile] = Corrupt
    /\ [site |-> "_analyze_excel_structure", err |-> LOAD_ERROR] \in listing.response.log
    /\ \E t \in Descriptors :
          t.filename = OtherFile /\ t.columns = <<>> /\ t.tables = 0

\* C17: the listing holds a descriptor for every readable file of the
\* directory whose extension is ".xlsx" or ".xls" in any letter case.
C17_EverySpreadsheetListed ==
    (Listed /\ Enumerated) =>
        \A f \in DOMAIN files :
            (/\ Lower(Suffix(f)) \in {XLSX, XLS}
             /\ files[f].kind = "ok"
             /\ f \notin listing.scan.gone) => HasDescriptor(f)

\* a listing over readable ".xls" and ".XLSX" files that describes neither
C17_Witness ==
    /\ Listed
    /\ Enumerated
    /\ listing.scan.windows
    /\ listing.scan.gone = {}
    /\ DOMAIN files = {XlsFile, UpperFile}
    /\ \A f \in DOMAIN files : files[f] = Template(<<ID, AMT, QTY>>)
    /\ ExcelFiles(files, listing.scan) = {XlsFile, UpperFile}
    /\ listing.response.success
    /\ Descriptors = {}

\* C18: when the directory is unreadable or missing when scanned, or its
\* enumeration raises, the listing returns success=false with an empty
\* templates list.
C18_DirectoryFailureReported ==
    (Listed /\ ~Enumerated) =>
        /\ ~listing.response.success
        /\ Descriptors = {}

\* a listing of a missing directory that reports success
C18_Witness ==
    /\ Listed
    /\ listing.scan.state = "missing"
    /\ ~listing.scan.raises
    /\ listing.response.success
    /\ Descriptors = {}
    /\ listing.response.log = {}

(***************************************************************************)
(* The HTTP endpoint.                                                      *)
(***************************************************************************)
\* the endpoint has answered
Answered(st) == st.via = "http" /\ st.pc = "closed"

\* C19: POST /api/reports/1 answers 200 with the spreadsheet as attachment
\* if and only if the service returned success=true with file bytes that are
\* not empty; a service result that is no success is answered with 400; and
\* an empty JSON object is never answered with 200, but with one of 400, 422
\* and 500.
C19_HttpStatusFollowsResult ==
    \A c \in DOMAIN call :
        LET st == call[c]
            called == st.request # NoRequest
            good == /\ called
                    /\ st.response.success
                    /\ HasFile(st.response)
                    /\ BytesLen(st.response.file_data) > 0
        IN  Answered(st) =>
              /\ st.status = 200 <=> good
              /\ st.status = 200 =>
                    /\ st.media_type = XLSX_MEDIA_TYPE
                    /\ st.content = st.response.file_data
              /\ st.status # 200 => st.content = NoBytes
              /\ (called /\ ~st.response.success) => st.status = 400
              /\ st.body = <<>> => st.status \in {400, 422, 500}

C19_Witness ==
    \E c \in DOMAIN call :
        /\ Answered(call[c])
        /\ call[c].request # NoRequest
        /\ call[c].response.message.fmt = CANNOT_OPEN
        /\ call[c].status = 400

(***************************************************************************)
(* Two generate_report calls at once.  excel_service is one object shared  *)
(* by all requests; each call keeps its workbook and every other local in  *)
(* its own frame, and the steps of the two calls interleave in any order.  *)
(***************************************************************************)
ConcurrentDirectories ==
    {[n \in {T1File, OtherFile} |->
        IF n = T1File THEN Template(<<AMT, ID, PAID>>) ELSE Template(<<ID, AMT, QTY>>)],
     [n \in {T1File} |-> ChartOnly]}

ConcurrentNames == {T1File, OtherFile}

ConcurrentPayloads ==
    {<< <<ROWS, List(<<>>)>> >>, << <<ROWS, List(<<Row2>>)>> >>,
     << <<ROWS, List(<<Row1, Row3>>)>> >>, << <<ROWS, List(<<Row4>>)>> >>}

ConcurrentInit ==
    /\ files \in ConcurrentDirectories
    /\ caseFold \in BOOLEAN
    /\ call = [c \in {1, 2} |-> Idle]
    /\ listing = NoListing
    /\ construct = NoConstruct

\* a request handler calls excel_service.generate_report
ConcurrentCall(c) ==
    /\ call[c].pc = "idle"
    /\ \E name \in ConcurrentNames, data \in ConcurrentPayloads :
          Update(c, [call[c] EXCEPT !.pc = "validate", !.via = "service",
                        !.request = [template_name |-> name, data |-> data]])

ConcurrentNext ==
    \/ \E c \in DOMAIN call : ConcurrentCall(c)
    \/ \E c \in DOMAIN call : Validate(c)
    \/ \E c \in DOMAIN call : Resolve(c)
    \/ \E c \in DOMAIN call : Create(c)
    \/ \E c \in DOMAIN call : GenericRows(c)
    \/ \E c \in DOMAIN call : Headers(c)
    \/ \E c \in DOMAIN call : Populate(c)
    \/ \E c \in DOMAIN call : Totals(c)
    \/ \E c \in DOMAIN call : HeaderFormatting(c)
    \/ \E c \in DOMAIN call : DataFormatting(c)
    \/ \E c \in DOMAIN call : TotalsFormatting(c)
    \/ \E c \in DOMAIN call : Borders(c)
    \/ \E c \in DOMAIN call : AutoSize(c)
    \/ \E c \in DOMAIN call : Save(c)
    \/ \E c \in DOMAIN call : Respond(c)

ConcurrentSpec == ConcurrentInit /\ [][ConcurrentNext]_vars

\* what the environment did to a call: which of exists(), the enumeration of
\* the directory and workbook.save raised
Environment(validate, list, save) == [validate |-> validate, list |-> list, save |-> save]

\* generate_report run from its first statement to its return with no other
\* call in progress: lines 190-217, then 226-283 or 301-341
generate_report(dir, fold, request, env) ==
    LET name == request.template_name
        validation == validate_template(dir, fold, name)
        t1 == Lower(name) = TEMPLATE_1
        gen == IF t1 THEN "template_1" ELSE "generic"
        templates_response == list_templates(dir, Scan("ok", env.list, FALSE, {}))
        matches == {t \in templates_response.templates : t.filename = name}
        rows_data == DataRows(request.data)
        columns == IF t1 THEN (CHOOSE t \in matches : TRUE).columns
                   ELSE GenericColumns(rows_data)
        ws1 == add_headers(EmptySheet, columns, 1, 1)
        populated == populate_data_rows(ws1, rows_data, columns, 2, 1)
        last == totals_row(rows_data)
        ws3 == IF t1 THEN add_calculated_totals_row(populated.ws, columns, rows_data, last, 1)
               ELSE populated.ws
        ws4 == apply_header_formatting(ws3, columns, 1, 1)
        ws7 == IF t1
               THEN apply_borders(
                        apply_totals_formatting(
                            apply_data_formatting(ws4, columns, 2, last, 1),
                            columns, last, 1),
                        1, last, 1, Len(columns))
               ELSE ws4
        blank == create_workbook(IF t1 THEN "Financial Report" ELSE "Report")
        workbook == [blank EXCEPT !.ws = ws7,
                                  !.widths = auto_size_columns(blank.widths, columns, 1)]
        excel_buffer == save_to_buffer(workbook).buffer
        data == [filename |-> IF t1 THEN "template_1_report_" ELSE "generic_report_",
                 size |-> BytesLen(excel_buffer),
                 template_used |-> name,
                 rows_processed |-> Len(rows_data)]
    IN  IF env.validate THEN Failure(Msg(ROUTER_ERROR, <<>>, FS_ERROR))
        ELSE IF ~validation.valid THEN Failure(validation.error)
        ELSE IF t1 /\ matches = {} THEN Failure(Msg(T1_NOT_FOUND, name, ""))
        ELSE IF ~t1 /\ rows_data = <<>> THEN Failure(Msg(NO_DATA, <<>>, ""))
        ELSE IF populated.raised
        THEN Failure(Msg(GeneratorError(gen), <<>>, populated.err))
        ELSE IF env.save THEN Failure(Msg(GeneratorError(gen), <<>>, SAVE_ERROR))
        ELSE ReportResponse(TRUE, data, Msg(IF t1 THEN T1_OK ELSE GENERIC_OK, <<>>, ""),
                            excel_buffer)

\* what the environment did to this call, read from what the call logged
EnvironmentOf(st) ==
    Environment(\E l \in st.log : l.site = "generate_report",
                \E l \in st.log : l.site = "list_templates",
                \E l \in st.log : l.err = SAVE_ERROR)

\* C20: in every interleaving of the steps of two generate_report calls over
\* an unchanged templates directory, a step of one call leaves the other
\* call's workbook and other locals as they are, and each call returns the
\* response (success flag, message, rows_processed, file bytes cell by cell)
\* that generate_report returns for its request when it runs alone under the
\* same behaviour of the file system.
C20_ConcurrentCallsDoNotInterfere ==
    /\ [](\A c \in DOMAIN call :
             Returned(call[c]) =>
                call[c].response =
                   generate_report(files, caseFold, call[c].request, EnvironmentOf(call[c])))
    /\ [][/\ files' = files
          /\ \E c \in DOMAIN call : \A d \in DOMAIN call \ {c} : call'[d] = call[d]]_vars

C20_Witness ==
    /\ Returned(call[1])
    /\ call[1].response.success
    /\ call[1].gen = "template_1"
    /\ call[1].request.data = << <<ROWS, List(<<Row2>>)>> >>
    /\ call[2].pc = "autosize"
    /\ call[2].gen = "generic"
    /\ call[2].workbook.ws # call[1].workbook.ws
    /\ call[2].rows_data = <<Row1, Row3>>

(***************************************************************************)
(* Routing.                                                                *)
(***************************************************************************)
\* the statements only the Template-1 generator has, and only the generic one
Template1Labels == {"list", "totals", "dfmt", "tfmt", "borders"}
GenericLabels == {"rows"}

\* validate_template answered "valid" and generate_report went on to route
Routed(st) == st.pc \notin {"idle", "validate"} /\ st.gen # "none"

\* C21: a validated request whose template name, lower-cased, equals
\* "template-1.xlsx" is handled by the Template-1 generator and by no other;
\* every other validated request is handled by the generic generator; a
\* request that was not validated is handled by neither, and a call never
\* stands at a statement of the generator that does not handle it.
C21_RoutingByLowerCasedName ==
    \A c \in DOMAIN call :
        LET st == call[c]
            name == st.request.template_name
        IN  /\ st.gen \in {"none", "template_1", "generic"}
            /\ Routed(st) =>
                  /\ validate_template(files, caseFold, name).valid
                  /\ st.gen = IF Lower(name) = TEMPLATE_1 THEN "template_1" ELSE "generic"
            /\ (Returned(st) /\ st.gen = "none") =>
                  /\ ~st.response.success
                  /\ st.response.message.fmt \in {NOT_FOUND, CANNOT_OPEN, ROUTER_ERROR}
                  /\ ~st.workbook.created
            /\ st.pc \in Template1Labels => st.gen = "template_1"
            /\ st.pc \in GenericLabels => st.gen = "generic"
            /\ (Returned(st) /\ st.response.message.fmt \in {T1_OK, T1_ERROR, T1_NOT_FOUND}) =>
                  st.gen = "template_1"
            /\ (Returned(st) /\ st.response.message.fmt \in {GENERIC_OK, GENERIC_ERROR, NO_DATA}) =>
                  st.gen = "generic"

C21_Witness ==
    \E c \in DOMAIN call :
        /\ Returned(call[c])
        /\ call[c].request.template_name = T1File
        /\ call[c].gen = "template_1"
        /\ call[c].response.message.fmt = T1_OK
        /\ call[c].workbook.title = "Financial Report"

(***************************************************************************)
(* The lookup of the Template-1 generator.                                 *)
(***************************************************************************)
\* the Template-1 generator has listed the templates
Looked(st) == st.gen = "template_1" /\ st.pc \notin {"idle", "validate", "list"}

\* a descriptor of the fresh listing carries the requested name
Matched(st) ==
    \E t \in st.templates_response.templates : t.filename = st.request.template_name

\* C22: in the Template-1 generator, if no descriptor of the fresh template
\* listing has a filename equal to the request's template name (the file
\* vanished after validation, the name differs in letter case only, or the
\* listing failed), the result is success=false with the message "Template
\* <name> not found", no file bytes, and no workbook is created; with such
\* a descriptor the generator goes on with it.
C22_UnresolvedTemplateNotFound ==
    \A c \in DOMAIN call :
        LET st == call[c]
            name == st.request.template_name
        IN  Looked(st) =>
              /\ name \notin DOMAIN files => ~Matched(st)
              /\ ~st.templates_response.success => ~Matched(st)
              /\ ~Matched(st) =>
                    /\ Returned(st)
                    /\ st.response = Failure(Msg(T1_NOT_FOUND, name, ""))
                    /\ ~HasFile(st.response)
                    /\ ~st.workbook.created
                    /\ st.template_info = NoInfo
              /\ Matched(st) =>
                    /\ st.template_info.filename = name
                    /\ st.response.message.fmt # T1_NOT_FOUND
                    /\ st.pc # "create" => st.workbook.created

C22_Witness ==
    \E c \in DOMAIN call :
        /\ Returned(call[c])
        /\ call[c].request.template_name = TEMPLATE_1
        /\ T1File \in DOMAIN files
        /\ files[T1File].kind = "ok"
        /\ \E t \in call[c].templates_response.templates : t.filename = T1File
        /\ call[c].response = Failure(Msg(T1_NOT_FOUND, TEMPLATE_1, ""))
        /\ ~call[c].workbook.created

(***************************************************************************)
(* The order of the sample-value rules.                                    *)
(***************************************************************************)
\* the name holds one of the keywords, in any letter case
HoldsAny(name, keywords) ==
    \E keyword \in keywords :
        \E i \in 1..(Len(name) - Len(keyword) + 1) :
            \A k \in 1..Len(keyword) : LowerChar(name[i + k - 1]) = keyword[k]

\* C23: the sample-value rules are applied first-match-wins in the order id,
\* group, monetary, variance, default: a name without "id" that matches a
\* group keyword yields "Sample Group" also when it matches a monetary
\* keyword ("Cost Center Group"); a name without "id" and group keywords
\* that matches a monetary keyword yields 1000.50 also when it matches a
\* variance keyword ("AB/CR Rate Diff"); a name that matches no keyword
\* yields "Sample Value"; every name has exactly one value.
C23_SampleRulesFirstMatchWins ==
    Listed =>
        \A t \in Descriptors :
            \A name \in DOMAIN t.sample_data :
                LET id == HoldsId(name)
                    group == HoldsAny(name, GROUP_KEYWORDS)
                    money == HoldsAny(name, MONEY_KEYWORDS)
                    variance == HoldsAny(name, VARIANCE_KEYWORDS)
                    value == t.sample_data[name]
                IN  /\ value \in {SampleStr("RULE001"), SampleStr("Sample Group"),
                                  SampleFloat("1000.50"), SampleFloat("0.0"),
                                  SampleStr("Sample Value")}
                    /\ (~id /\ group) => value = SampleStr("Sample Group")
                    /\ (~id /\ ~group /\ money) => value = SampleFloat("1000.50")
                    /\ (~id /\ ~group /\ ~money /\ variance) => value = SampleFloat("0.0")
                    /\ (~id /\ ~group /\ ~money /\ ~variance) =>
                          value = SampleStr("Sample Value")
                    /\ name = COST_CENTER_GROUP => value = SampleStr("Sample Group")
                    /\ name = RATE_DIFF => value = SampleFloat("1000.50")

C23_Witness ==
    /\ Listed
    /\ \E t \in Descriptors :
          /\ t.columns = <<COST_CENTER_GROUP, RATE_DIFF, NAME, DELTA, COST>>
          /\ t.sample_data[COST_CENTER_GROUP] = SampleStr("Sample Group")
          /\ t.sample_data[RATE_DIFF] = SampleFloat("1000.50")
          /\ t.sample_data[NAME] = SampleStr("Sample Value")
          /\ t.sample_data[DELTA] = SampleFloat("0.0")
          /\ t.sample_data[COST] = SampleFloat("1000.50")

(***************************************************************************)
(* The width of the table scan.                                            *)
(***************************************************************************)
\* the header cells of the first table's range, left to right
TableHeaderCells(file) ==
    [j \in 1..TableWidth(file) |->
        HeaderValue(file, file.tables[1].min_row, file.tables[1].min_col + j - 1)]

\* the stripped text of each cell
Names(cells) == [j \in 1..Len(cells) |-> Strip(StrOf(cells[j]))]

\* C24 as stated: in the embedded-table path the scan covers the full width
\* of the table range: a column whose header cell is empty is skipped, and
\* every header cell that is not empty is included, in left-to-right order.
C24_EveryNonEmptyHeaderIncluded ==
    Listed =>
        \A t \in Descriptors :
            Tabled(FileOf(t)) =>
                t.columns = Names(SelectSeq(TableHeaderCells(FileOf(t)),
                                            LAMBDA v : v # NoneVal))

\* C24 amended: in the embedded-table path the scan covers the full width of
\* the table range and never ends early: a column whose header cell holds no
\* value, which is the case of None and of "", 0 and False as well, is
\* skipped, and every header cell of the range that holds a value is
\* included, in left-to-right order, also to the right of a skipped column.
C24_TableScanNeverEndsEarly ==
    Listed =>
        \A t \in Descriptors :
            Tabled(FileOf(t)) =>
                LET cells == TableHeaderCells(FileOf(t))
                IN  /\ t.columns = Names(SelectSeq(cells, Truthy))
                    /\ \A g \in 1..Len(cells) : \A c \in (g + 1)..Len(cells) :
                          (~Truthy(cells[g]) /\ Truthy(cells[c])) =>
                              \E i \in 1..Len(t.columns) :
                                  t.columns[i] = Strip(StrOf(cells[c]))
                    /\ Truthy(cells[Len(cells)]) =>
                          t.columns[Len(t.columns)] = Strip(StrOf(cells[Len(cells)]))

C24_Witness ==
    /\ Listed
    /\ \E t \in Descriptors :
          /\ t.filename = T1File
          /\ FileOf(t) = TableWithGap
          /\ TableHeaderCells(FileOf(t)) =
                <<Str(RATE_ID), NoneVal, Str(COST_CENTER), Num(0), Num(7)>>
          /\ t.columns = <<RATE_ID, COST_CENTER, <<"7">> >>

(***************************************************************************)
(* The cap of the fallback scan.                                           *)
(***************************************************************************)
\* C25: in the no-table fallback, row 1 is scanned from column 1 up to a cap
\* of 20 columns: a header row whose first 20 cells all hold a value yields
\* exactly the first 20 column names.
C25_FallbackCapIsTwenty ==
    Listed =>
        \A t \in Descriptors :
            (/\ Plain(FileOf(t))
             /\ \A c \in 1..20 : Truthy(HeaderValue(FileOf(t), 1, c))) =>
                t.columns = [j \in 1..20 |-> Strip(StrOf(HeaderValue(FileOf(t), 1, j)))]

\* a listing of a file with 20 headers in a row that gives 19 columns
C25_Witness ==
    /\ Listed
    /\ \E t \in Descriptors :
          /\ FileOf(t) = Wide
          /\ \A c \in 1..20 : Truthy(HeaderValue(Wide, 1, c))
          /\ Len(t.columns) = 19
          /\ t.columns[19] = <<"c", "1", "9">>
          /\ \A j \in 1..19 : t.columns[j] # <<"c", "2", "0">>

(***************************************************************************)
(* Data placement.                                                         *)
(***************************************************************************)
\* populate_data_rows has just returned to its generator
Populated(st) ==
    \/ st.gen = "template_1" /\ st.pc = "totals"
    \/ st.gen = "generic" /\ st.pc = "hfmt"

\* C26: for N input rows and the column list c_1..c_K, populate_data_rows
\* (called with start_row 2 and start_col 1) writes the i-th row, in input
\* order, at worksheet row i+1, putting row[c_j] in column j when the row
\* has the key and creating no cell there when it has not; a key that is not
\* in the column list is written nowhere; it returns 2+N and leaves every
\* cell outside rows 2..N+1 as add_headers left it.
C26_DataPlacement ==
    \A c \in DOMAIN call :
        LET st == call[c]
            ws == st.workbook.ws
            rows == st.rows_data
            N == Len(rows)
            K == Len(st.columns)
            before == add_headers(EmptySheet, st.columns, 1, 1)
        IN  Populated(st) =>
              /\ st.next_row = 2 + N
              /\ \A i \in 1..N : \A j \in 1..K :
                    IF HasKey(rows[i], st.columns[j])
                    THEN /\ <<i + 1, j>> \in DOMAIN ws
                         /\ ws[<<i + 1, j>>].value = Get(rows[i], st.columns[j])
                    ELSE <<i + 1, j>> \notin DOMAIN ws
              /\ \A k \in DOMAIN ws :
                    IF k[1] \in 2..(N + 1) THEN k[2] \in 1..K
                    ELSE k \in DOMAIN before /\ ws[k] = before[k]
              /\ \A k \in DOMAIN before : k \in DOMAIN ws

C26_Witness ==
    \E c \in DOMAIN call :
        /\ Populated(call[c])
        /\ call[c].gen = "generic"
        /\ call[c].rows_data = <<Row1, Row2>>
        /\ call[c].columns = <<ID, AMT, QTY>>
        /\ call[c].next_row = 4
        /\ ValueAt(call[c].workbook.ws, 3, 1) = Num(7)
        /\ ValueAt(call[c].workbook.ws, 3, 2) = Num(50)
        /\ <<3, 3>> \notin DOMAIN call[c].workbook.ws
        /\ \A k \in DOMAIN call[c].workbook.ws :
              call[c].workbook.ws[k].value # Num(5)

(***************************************************************************)
(* The order of the steps of one generation.                               *)
(***************************************************************************)
\* the statements that write to the worksheet or format it
WriteLabels == {"headers", "populate", "totals", "hfmt", "dfmt", "tfmt", "borders",
                "autosize"}

\* the workbook has been serialized
Serialized(st) == st.excel_buffer.present

\* C27: in both generators every worksheet write and formatting step comes
\* before the serialization, which happens once; the workbook is closed in
\* the step that serializes it; no later step changes the closed workbook or
\* the buffer; and the bytes returned are those of the buffer, which hold
\* the workbook as it was when it was closed.
C27_WritesThenSerializeThenClose ==
    /\ [](\A c \in DOMAIN call :
             LET st == call[c]
             IN  /\ st.pc \in WriteLabels \cup {"save"} =>
                       /\ st.workbook.created
                       /\ ~st.workbook.closed
                       /\ ~Serialized(st)
                 /\ Serialized(st) <=> st.workbook.closed
                 /\ Serialized(st) =>
                       /\ st.pc \in {"respond", "done", "closed"}
                       /\ st.excel_buffer = SaveBytes([st.workbook EXCEPT !.closed = FALSE])
                       /\ LoadSheet(st.excel_buffer) = st.workbook.ws
                 /\ (Returned(st) /\ st.response.success) =>
                       /\ Serialized(st)
                       /\ st.response.file_data = st.excel_buffer
                 /\ (Returned(st) /\ ~st.response.success) =>
                       st.response.file_data = NoBytes)
    /\ [][\A c \in DOMAIN call :
             /\ call[c].workbook.closed => call'[c].workbook = call[c].workbook
             /\ Serialized(call[c]) => call'[c].excel_buffer = call[c].excel_buffer
             /\ call'[c].workbook.ws # call[c].workbook.ws =>
                   call[c].pc \in WriteLabels /\ ~Serialized(call'[c])]_vars

C27_Witness ==
    \E c \in DOMAIN call :
        /\ call[c].pc = "respond"
        /\ call[c].gen = "template_1"
        /\ call[c].rows_data = <<Row1, Row2>>
        /\ call[c].workbook.closed
        /\ Serialized(call[c])
        /\ CellAt(LoadSheet(call[c].excel_buffer), 4, 1).fill = TOTALS_BG
        /\ CellAt(LoadSheet(call[c].excel_buffer), 4, 1).border = "thin"
        /\ call[c].response = NoResponse

(***************************************************************************)
(* The normalized template name.                                           *)
(***************************************************************************)
\* C28: for every input that validate_template_name accepts, the output is
\* not empty, ends in ".xlsx", holds none of the rejected characters and has
\* no blank at either end, and the validator applied to the output accepts
\* it and returns it unchanged.
C28_NormalizationIdempotent ==
    LET r == construct.name_result
    IN  /\ (construct.pc \in {"data", "done", "again"} /\ r.accepted) =>
              /\ r.value # <<>>
              /\ EndsWith(r.value, XLSX)
              /\ ~HasInvalidChar(r.value)
              /\ r.value[1] \notin WHITESPACE
              /\ r.value[Len(r.value)] \notin WHITESPACE
        /\ construct.pc = "again" => construct.again = Accepted(r.value)

C28_Witness ==
    /\ construct.pc = "again"
    /\ construct.lead # <<>>
    /\ construct.trail # <<>>
    /\ construct.core = <<"a", " ", "b">> \o UPPER_XLSX
    /\ construct.name_result.value = <<"a", " ", "b">> \o UPPER_XLSX \o XLSX
    /\ construct.again = construct.name_result

(***************************************************************************)
(* Columns and sample data of a descriptor.                                *)
(***************************************************************************)
\* the names in a column list
NameSet(columns) == {columns[j] : j \in 1..Len(columns)}

\* C29: for every descriptor of a listing, the keys of sample_data are
\* exactly the names in columns, and each sample value is the synthesizer's
\* value for its name: on the table path, on the fallback path (where a name
\* that occurs in several header cells is one key) and when the analysis of
\* the file failed, where both are empty.
C29_SampleDataMatchesColumns ==
    Listed =>
        \A t \in Descriptors :
            /\ DOMAIN t.sample_data = NameSet(t.columns)
            /\ \A name \in DOMAIN t.sample_data :
                  t.sample_data[name] = generate_sample_value(name)
            /\ FileOf(t).kind # "ok" =>
                  /\ t.columns = <<>>
                  /\ DOMAIN t.sample_data = {}
            /\ Tabled(FileOf(t)) => t.columns = table_columns(FileOf(t))
            /\ Plain(FileOf(t)) => t.columns = fallback_columns(FileOf(t))

C29_Witness ==
    /\ Listed
    /\ \E t \in Descriptors :
          /\ FileOf(t) = PlainDuplicates
          /\ t.columns = <<COST, COST, ID, COST>>
          /\ DOMAIN t.sample_data = {COST, ID}
          /\ t.sample_data[COST] = SampleFloat("1000.50")
    /\ \E t \in Descriptors :
          /\ FileOf(t) = Corrupt
          /\ t.columns = <<>>
          /\ DOMAIN t.sample_data = {}

(***************************************************************************)
(* Path confinement.                                                       *)
(***************************************************************************)
\* the path names an entry of the templates directory itself
DirectChild(path) ==
    /\ ~path.anchored
    /\ Len(path.parts) = 1
    /\ path.parts[1] # <<".", ".">>

\* C30: for every template name that a ReportRequest accepts, the path
\* templates_dir / name that get_template_path builds, on either path
\* flavour, names a direct child of the templates directory; and when
\* get_template_path returns a path for validate_template to open, that path
\* is the request's name, a file of the directory carries it, and its suffix
\* is ".xlsx" or ".xls" in any letter case.
C30_PathConfinement ==
    construct.pc = "resolved" =>
        LET name == construct.name_result.value
        IN  /\ DirectChild(construct.template_path)
            /\ construct.template_path.parts = <<name>>
            /\ \A windows \in BOOLEAN : DirectChild(template_path(name, windows))
            /\ construct.resolved.found =>
                  /\ construct.resolved.path = name
                  /\ \E f \in DOMAIN files : FsSame(caseFold, f, name)
                  /\ Lower(Suffix(name)) \in {XLSX, XLS}

C30_Witness ==
    /\ construct.pc = "resolved"
    /\ construct.lead # <<>>
    /\ construct.core = ANNUAL_REPORT
    /\ construct.windows
    /\ construct.resolved = [found |-> TRUE, path |-> ANNUAL_REPORT \o XLSX]
    /\ construct.template_path = [anchored |-> FALSE, parts |-> <<ANNUAL_REPORT \o XLSX>>]

====
